---- MODULE Spec2Model ----
(***************************************************************************)
(* A model of the nitrus toolkit: the hierarchical state machine           *)
(* (state/StateMachine.hpp), the event loop (Thread.hpp), the TCP client   *)
(* send queue (net/TcpClient.hpp) and the HTTP client response parser      *)
(* (http/HttpClient.hpp).  Each subsystem has its own variables and its    *)
(* own specification; a specification leaves the other subsystems' state   *)
(* untouched.                                                              *)
(***************************************************************************)
EXTENDS Integers, Sequences, FiniteSets, TLC

VARIABLES smState, smConfigured, smTrans, smSuper, smStack, smLog, smCalls,
          smOutcome, smAttempt

VARIABLES thQueue, thNow, thIdle, thPc, thCurrent, thLeft, thNextId, thLog

VARIABLES tcp
VARIABLES http

VARIABLES srv

VARIABLES ssl

VARIABLES xml

VARIABLES dom

VARIABLES jab

VARIABLES router

VARIABLES evt

VARIABLES time

smVars == <<smState, smConfigured, smTrans, smSuper, smStack, smLog, smCalls,
            smOutcome, smAttempt>>

thVars == <<thQueue, thNow, thIdle, thPc, thCurrent, thLeft, thNextId, thLog>>

tcpVars == <<tcp>>
httpVars == <<http>>

srvVars == <<srv>>

sslVars == <<ssl>>

xmlVars == <<xml>>

domVars == <<dom>>

jabVars == <<jab>>

restVars == <<router>>

evtVars == <<evt>>

timeVars == <<time>>

vars == <<smVars, thVars, tcpVars, httpVars, srvVars, sslVars, xmlVars, domVars, jabVars, restVars, evtVars, timeVars>>

\* What a step of one subsystem leaves alone: the other subsystems.
SmFrame == UNCHANGED <<thVars, tcpVars, httpVars, srvVars, sslVars, xmlVars, domVars, jabVars, restVars, evtVars, timeVars>>
ThFrame == UNCHANGED <<smVars, tcpVars, httpVars, srvVars, sslVars, xmlVars, domVars, jabVars, restVars, evtVars, timeVars>>
TcpFrame == UNCHANGED <<smVars, thVars, httpVars, srvVars, sslVars, xmlVars, domVars, jabVars, restVars, evtVars, timeVars>>
HttpFrame == UNCHANGED <<smVars, thVars, tcpVars, srvVars, sslVars, xmlVars, domVars, jabVars, restVars, evtVars, timeVars>>
SrvFrame == UNCHANGED <<smVars, thVars, tcpVars, httpVars, sslVars, xmlVars, domVars, jabVars, restVars, evtVars, timeVars>>
SslFrame == UNCHANGED <<smVars, thVars, tcpVars, httpVars, srvVars, xmlVars, domVars, jabVars, restVars, evtVars, timeVars>>
XmlFrame == UNCHANGED <<smVars, thVars, tcpVars, httpVars, srvVars, sslVars, domVars, jabVars, restVars, evtVars, timeVars>>
DomFrame == UNCHANGED <<smVars, thVars, tcpVars, httpVars, srvVars, sslVars, xmlVars, jabVars, restVars, evtVars, timeVars>>
JabFrame == UNCHANGED <<smVars, thVars, tcpVars, httpVars, srvVars, sslVars, xmlVars, domVars, restVars, evtVars, timeVars>>
RestFrame == UNCHANGED <<smVars, thVars, tcpVars, httpVars, srvVars, sslVars, xmlVars, domVars, jabVars, evtVars, timeVars>>
EvtFrame == UNCHANGED <<smVars, thVars, tcpVars, httpVars, srvVars, sslVars, xmlVars, domVars, jabVars, restVars, timeVars>>
TimeFrame == UNCHANGED <<smVars, thVars, tcpVars, httpVars, srvVars, sslVars, xmlVars, domVars, jabVars, restVars, evtVars>>

(***************************************************************************)
(* Generic helpers.                                                        *)
(***************************************************************************)
RECURSIVE SumOver(_, _)
SumOver(S, f) ==
    IF S = {} THEN 0
    ELSE LET x == CHOOSE y \in S : TRUE IN f[x] + SumOver(S \ {x}, f)

Min(S) == CHOOSE x \in S : \A y \in S : x <= y

\* std::string::erase(0, count) and std::string::substr(0, count); count is
\* cut to the length of the string.
Erase(str, count) ==
    IF count >= Len(str) THEN <<>> ELSE SubSeq(str, count + 1, Len(str))

Substr(str, count) ==
    IF count >= Len(str) THEN str ELSE SubSeq(str, 1, count)

(***************************************************************************)
(* StateMachine<StateType, TriggerType>  (state/StateMachine.hpp)          *)
(***************************************************************************)
States == 0..2
Triggers == 0..1
NoState == Min(States) - 1

\* Bounds of the state-machine model.
MaxPermits == 2
MaxDepth == 2
MaxLog == 6

\* A TriggerConfiguration under its key: Permit(trigger, destination,
\* predicate) called on the configuration of state `from`.  `guard` is the
\* value the predicate returns when CanTransition invokes it.  smTrans is the
\* multimap of all states' configurations: a bag of these records.
TransCandidates ==
    [from : States, trigger : Triggers, to : States, guard : BOOLEAN]

\* The state the machine is constructed in: StateMachine(StateType state).
InitialState == Min(States)

NoAttempt == [trigger |-> -1, source |-> NoState, log |-> <<>>]

SmStart ==
    /\ smState = InitialState
    /\ smConfigured = {}
    /\ smTrans = <<>>
    /\ smSuper = [s \in States |-> {}]
    /\ smStack = <<>>
    /\ smLog = <<>>
    /\ smCalls = <<>>
    /\ smOutcome = "none"
    /\ smAttempt = NoAttempt

\* The machine has not been fired yet: the configuration is still being built.
SmBuilding == smOutcome = "none"

\* Configure(state).Permit(trigger, destination, predicate)
Permit(from, trigger, to, guard) ==
    LET c == [from |-> from, trigger |-> trigger, to |-> to, guard |-> guard]
    IN  /\ SmBuilding
        /\ SumOver(DOMAIN smTrans, smTrans) < MaxPermits
        /\ smConfigured' = smConfigured \cup {from}
        /\ smTrans' = IF c \in DOMAIN smTrans
                      THEN [smTrans EXCEPT ![c] = @ + 1]
                      ELSE smTrans @@ (c :> 1)
        /\ UNCHANGED <<smState, smSuper, smStack, smLog, smCalls, smOutcome,
                       smAttempt>>
        /\ SmFrame

\* Configure(sub).SubstateOf(super).  The hierarchies built are acyclic
\* (super > sub): Transition recurses through the super-states.
SubstateOf(sub, super) ==
    /\ SmBuilding
    /\ super > sub
    /\ super \notin smSuper[sub]
    /\ smConfigured' = smConfigured \cup {sub}
    /\ smSuper' = [smSuper EXCEPT ![sub] = @ \cup {super}]
    /\ UNCHANGED <<smState, smTrans, smStack, smLog, smCalls, smOutcome,
                   smAttempt>>
    /\ SmFrame

\* TriggerConfiguration::CanTransition
CanTransition(c) == c.guard

\* The entries of equal_range(trigger) in the configuration of state s whose
\* predicate allows the transition.
Satisfied(s, t) ==
    {c \in DOMAIN smTrans :
        c.from = s /\ c.trigger = t /\ CanTransition(c)}

SatisfiedCount(s, t) == SumOver(Satisfied(s, t), smTrans)

\* StateConfiguration::Transition.  Result: kind "ok" (true, destination
\* assigned), "none" (false) or "multi" (MultipleTriggerException); touched is
\* the set of states _lookup (Configure) was called for.
RECURSIVE Transition(_, _), SuperStates(_, _, _, _, _)

\* Mutant: the first super-state that resolves wins, a second one is not
\* noticed.
SuperStatesFirstWins(rest, t, found, dest, touched) ==
    LET resolving == {i \in rest : Transition(i, t).kind = "ok"}
    IN  IF resolving = {}
        THEN [kind |-> "none", dest |-> dest, touched |-> touched \cup rest]
        ELSE [kind |-> "ok", dest |-> Transition(Min(resolving), t).dest,
              touched |-> touched \cup rest]

SuperStates(rest, t, found, dest, touched) ==
    IF rest = {} THEN
        [kind |-> IF found THEN "ok" ELSE "none", dest |-> dest,
         touched |-> touched]
    ELSE
        LET i == Min(rest)
            r == Transition(i, t)
            seen == touched \cup {i} \cup r.touched
        IN  IF r.kind = "multi" THEN
                [kind |-> "multi", dest |-> dest, touched |-> seen]
            ELSE IF r.kind = "ok" THEN
                IF found THEN
                    [kind |-> "multi", dest |-> r.dest, touched |-> seen]
                ELSE SuperStates(rest \ {i}, t, TRUE, r.dest, seen)
            ELSE SuperStates(rest \ {i}, t, found, dest, seen)

\* Mutant: the super-states are asked first, the state's own transitions last.
TransitionSuperFirst(s, t) ==
    LET up == SuperStates(smSuper[s], t, FALSE, NoState, {})
    IN  IF up.kind /= "none" THEN up
        ELSE IF SatisfiedCount(s, t) >= 2 THEN
            [kind |-> "multi", dest |-> NoState, touched |-> up.touched]
        ELSE IF SatisfiedCount(s, t) = 1 THEN
            [kind |-> "ok", dest |-> (CHOOSE c \in Satisfied(s, t) : TRUE).to,
             touched |-> up.touched]
        ELSE up

\* Mutant: the first satisfied transition wins, a second one is not noticed.
TransitionFirstWins(s, t) ==
    IF SatisfiedCount(s, t) >= 1 THEN
        [kind |-> "ok", dest |-> (CHOOSE c \in Satisfied(s, t) : TRUE).to,
         touched |-> {}]
    ELSE SuperStates(smSuper[s], t, FALSE, NoState, {})

Transition(s, t) ==
    IF SatisfiedCount(s, t) >= 2 THEN
        [kind |-> "multi", dest |-> NoState, touched |-> {}]
    ELSE IF SatisfiedCount(s, t) = 1 THEN
        [kind |-> "ok", dest |-> (CHOOSE c \in Satisfied(s, t) : TRUE).to,
         touched |-> {}]
    ELSE SuperStates(smSuper[s], t, FALSE, NoState, {})

\* Mutant: a trigger nothing permits is taken as a transition to the current
\* state.
CanFireSelf(t) ==
    LET r == IF smState \notin smConfigured
             THEN [kind |-> "none", dest |-> NoState, touched |-> {}]
             ELSE Transition(smState, t)
    IN  IF r.kind = "none" THEN [r EXCEPT !.kind = "ok", !.dest = smState]
        ELSE r

\* StateMachine::CanFire(trigger, source, destination)
CanFire(t) ==
    IF smState \notin smConfigured THEN
        [kind |-> "none", dest |-> NoState, touched |-> {}]
    ELSE Transition(smState, t)

\* A log entry: callback `ev` of Fire number `id` ran for state `st` while the
\* current state was `cur`.
LogEntry(id, ev, st, cur) == [id |-> id, ev |-> ev, st |-> st, cur |-> cur]

CanCallFire ==
    \/ smStack = <<>>
    \/ /\ smStack /= <<>>
       /\ Len(smStack) < MaxDepth
       /\ Len(smLog) + 3 <= MaxLog
       /\ smStack[Len(smStack)].pc \in {"inExit", "inEntry"}

\* StateMachine::Fire, up to the invocation of the exit handler.  Called by
\* the user (empty stack) or from inside an entry/exit handler.  A failing
\* CanFire or Transition throws; the exception unwinds every Fire in progress.
Fire(t) ==
    LET top == smStack = <<>>
        log == IF top THEN <<>> ELSE smLog
        calls == IF top THEN <<>> ELSE smCalls
        r == CanFire(t)
        id == Len(calls) + 1
    IN  /\ CanCallFire
        /\ smAttempt' = [trigger |-> t, source |-> smState, log |-> log]
        /\ smConfigured' = smConfigured \cup r.touched
                             \cup (IF r.kind = "ok" THEN {r.dest} ELSE {})
        /\ IF r.kind = "ok" THEN
               /\ smStack' = Append(smStack,
                     [id |-> id, source |-> smState, destination |-> r.dest,
                      pc |-> "inExit"])
               /\ smCalls' = Append(calls,
                     [trigger |-> t, source |-> smState,
                      destination |-> r.dest, returned |-> FALSE])
               /\ smLog' = Append(log, LogEntry(id, "exit", smState, smState))
               /\ smOutcome' = "running"
           ELSE
               /\ smStack' = <<>>
               /\ smCalls' = calls
               /\ smLog' = log
               /\ smOutcome' = IF r.kind = "multi"
                               THEN "MultipleTriggerException"
                               ELSE "UndefinedTriggerException"
        /\ UNCHANGED <<smState, smTrans, smSuper>>
        /\ SmFrame

\* Mutant: the entry handler is invoked before the state is mutated.
ExitReturnEntryFirst ==
    /\ smStack /= <<>>
    /\ LET f == smStack[Len(smStack)]
       IN  /\ f.pc = "inExit"
           /\ smState' = f.destination
           /\ smLog' = smLog \o
                 <<LogEntry(f.id, "entry", f.destination, smState),
                   LogEntry(f.id, "set", f.destination, smState')>>
           /\ smStack' = [smStack EXCEPT ![Len(smStack)].pc = "inEntry"]
    /\ UNCHANGED <<smConfigured, smTrans, smSuper, smCalls, smOutcome,
                   smAttempt>>
    /\ SmFrame

\* The exit handler returns: _stateMutator(destination), then the entry
\* handler of the destination is invoked.
ExitReturn ==
    /\ smStack /= <<>>
    /\ LET f == smStack[Len(smStack)]
       IN  /\ f.pc = "inExit"
           /\ smState' = f.destination
           /\ smLog' = smLog \o
                 <<LogEntry(f.id, "set", f.destination, smState'),
                   LogEntry(f.id, "entry", f.destination, smState')>>
           /\ smStack' = [smStack EXCEPT ![Len(smStack)].pc = "inEntry"]
    /\ UNCHANGED <<smConfigured, smTrans, smSuper, smCalls, smOutcome,
                   smAttempt>>
    /\ SmFrame

\* The entry handler returns, and with it Fire.
EntryReturn ==
    /\ smStack /= <<>>
    /\ LET f == smStack[Len(smStack)]
       IN  /\ f.pc = "inEntry"
           /\ smCalls' = [smCalls EXCEPT ![f.id].returned = TRUE]
           /\ smStack' = SubSeq(smStack, 1, Len(smStack) - 1)
           /\ smOutcome' = IF Len(smStack) = 1 THEN "ok" ELSE smOutcome
    /\ UNCHANGED <<smState, smConfigured, smTrans, smSuper, smLog, smAttempt>>
    /\ SmFrame

\* The transitions the model configures.  The destination of a transition
\* whose predicate never holds is never read: one destination stands for all.
PermitInputs == {c \in TransCandidates : c.guard \/ c.to = c.from}

SmStep ==
    \/ \E c \in PermitInputs : Permit(c.from, c.trigger, c.to, c.guard)
    \/ \E sub \in States, super \in States : SubstateOf(sub, super)
    \/ \E t \in Triggers : Fire(t)
    \/ ExitReturn
    \/ EntryReturn


(***************************************************************************)
(* Thread: the timed event queue and the event loop  (Thread.hpp)          *)
(***************************************************************************)
\* Bounds of the event-loop model.
MaxEvents == 3
MaxTimeout == 2
MaxTime == 4

\* The timeouts callers pass to SetTimeout, in clock ticks.
Timeouts == 0..MaxTimeout

NoEvent == [id |-> 0, time |-> 0]

\* FutureEvents is a priority_queue ordered by std::greater: the set of the
\* queued FutureEventHandlers, each with the id of its delegate and its _time.
ThStart ==
    /\ thQueue = {}
    /\ thNow = 0
    /\ thIdle = 0
    /\ thPc = "main"
    /\ thCurrent = NoEvent
    /\ thLeft = {}
    /\ thNextId = 1
    /\ thLog = <<>>

\* SetTimeout is called by the program before Run, or by a running callback.
CanSchedule == thPc \in {"main", "invoking"} /\ thNextId <= MaxEvents

\* Thread::SetTimeout(timeout, delegate)
SetTimeout(timeout) ==
    /\ CanSchedule
    /\ thQueue' = thQueue \cup {[id |-> thNextId, time |-> thNow + timeout]}
    /\ thNextId' = thNextId + 1
    /\ UNCHANGED <<thNow, thIdle, thPc, thCurrent, thLeft, thLog>>
    /\ ThFrame

\* Thread::Invoke(delegate)
Invoke == SetTimeout(0)

\* DateTime::Utc() advances while the program runs.
Tick ==
    /\ thPc \in {"main", "invoking"}
    /\ thNow < MaxTime
    /\ thNow' = thNow + 1
    /\ UNCHANGED <<thQueue, thIdle, thPc, thCurrent, thLeft, thNextId, thLog>>
    /\ ThFrame

\* The program calls Thread::Run.
RunCall ==
    /\ thPc = "main"
    /\ thPc' = "loop"
    /\ UNCHANGED <<thQueue, thNow, thIdle, thCurrent, thLeft, thNextId, thLog>>
    /\ ThFrame

\* Mutant: the queue is ordered by std::less, top() is the latest event.
TopLatest == {e \in thQueue : \A o \in thQueue : o.time <= e.time}

\* priority_queue::top() under std::greater: an event no other queued event
\* is due before (which one of several due at the same time is not fixed).
Top == {e \in thQueue : \A o \in thQueue : e.time <= o.time}

\* Mutant: top() without pop(): the event stays queued.
PopKeep(e) == thQueue

\* priority_queue::pop()
Pop(e) == thQueue \ {e}

\* Thread::Sleep(event.Time() - DateTime::Utc()): the time slept, zero when
\* the event is already due.
SleepTime(e) == IF e.time - thNow > 0 THEN e.time - thNow ELSE 0

\* One iteration of the loop of Run up to the call of the delegate: top, pop,
\* Sleep, event().
RunDequeue ==
    /\ thPc = "loop"
    /\ thQueue /= {}
    /\ \E e \in Top :
           /\ thQueue' = Pop(e)
           /\ thLeft' = Pop(e)
           /\ thNow' = thNow + SleepTime(e)
           /\ thIdle' = thIdle + SleepTime(e)
           /\ thCurrent' = e
           /\ thLog' = Append(thLog, [id |-> e.id, ev |-> "begin"])
    /\ thPc' = "invoking"
    /\ UNCHANGED thNextId
    /\ ThFrame

\* The delegate returns: the loop tests FutureEvents.empty() again.
CallbackReturn ==
    /\ thPc = "invoking"
    /\ thPc' = "loop"
    /\ thLog' = Append(thLog, [id |-> thCurrent.id, ev |-> "end"])
    /\ thCurrent' = NoEvent
    /\ UNCHANGED <<thQueue, thNow, thIdle, thLeft, thNextId>>
    /\ ThFrame

\* The delegate throws: Run catches nothing, the exception leaves Run
\* (Application::Run logs it and returns EXIT_FAILURE).
CallbackThrow ==
    /\ thPc = "invoking"
    /\ thPc' = "thrown"
    /\ thLog' = Append(thLog, [id |-> thCurrent.id, ev |-> "throw"])
    /\ thCurrent' = NoEvent
    /\ UNCHANGED <<thQueue, thNow, thIdle, thLeft, thNextId>>
    /\ ThFrame

\* The loop finds the queue empty: Run returns.
RunReturn ==
    /\ thPc = "loop"
    /\ thQueue = {}
    /\ thPc' = "returned"
    /\ UNCHANGED <<thQueue, thNow, thIdle, thCurrent, thLeft, thNextId, thLog>>
    /\ ThFrame

ThStep ==
    \/ \E timeout \in Timeouts : SetTimeout(timeout)
    \/ Invoke
    \/ Tick
    \/ RunCall
    \/ RunDequeue
    \/ CallbackReturn
    \/ CallbackThrow
    \/ RunReturn


(***************************************************************************)
(* A machine configured once with default predicates: what Transition      *)
(* resolves for the tables the clients build in their constructors.        *)
(***************************************************************************)
RECURSIVE Resolve(_, _, _, _)
Resolve(permits, super, s, t) ==
    LET own == {p \in permits : p.from = s /\ p.trigger = t}
        ups == {Resolve(permits, super, p, t) : p \in super[s]}
        oks == {p \in super[s] : Resolve(permits, super, p, t).kind = "ok"}
    IN  IF Cardinality(own) >= 2 THEN [kind |-> "multi", dest |-> s]
        ELSE IF Cardinality(own) = 1 THEN
            [kind |-> "ok", dest |-> (CHOOSE p \in own : TRUE).to]
        ELSE IF \E r \in ups : r.kind = "multi" THEN
            [kind |-> "multi", dest |-> s]
        ELSE IF Cardinality(oks) >= 2 THEN [kind |-> "multi", dest |-> s]
        ELSE IF Cardinality(oks) = 1 THEN
            Resolve(permits, super, CHOOSE p \in oks : TRUE, t)
        ELSE [kind |-> "none", dest |-> s]

P(from, trigger, to) == [from |-> from, trigger |-> trigger, to |-> to]

(***************************************************************************)
(* TcpClient  (net/TcpClient.hpp)                                          *)
(***************************************************************************)
\* Bounds of the TCP client model.
MaxSends == 3
MaxReads == 2
MaxSendDepth == 3

TcpStates == {"Idle", "Connecting", "Connected", "Sending", "Disconnected"}

\* The arguments callers pass to Send.
SendArgs == {<<"A", "B">>, <<"C", "D">>, <<"E">>}

\* The configuration the constructor builds.
\* Mutant: a disconnected client may connect again.
TcpPermitsReconnect ==
    { P("Idle", "Connected", "Connected"),
      P("Idle", "Connect", "Connecting"),
      P("Connecting", "Connected", "Connected"),
      P("Connecting", "Disconnected", "Disconnected"),
      P("Connecting", "Timeout", "Disconnected"),
      P("Connected", "Send", "Sending"),
      P("Connected", "Disconnected", "Disconnected"),
      P("Disconnected", "Connect", "Connecting") }

TcpPermits ==
    { P("Idle", "Connected", "Connected"),

      P("Idle", "Connect", "Connecting"),
      P("Connecting", "Connected", "Connected"),
      P("Connecting", "Disconnected", "Disconnected"),
      P("Connecting", "Timeout", "Disconnected"),
      P("Connected", "Send", "Sending"),
      P("Connected", "Disconnected", "Disconnected") }

TcpSuper ==
    [s \in TcpStates |-> IF s = "Sending" THEN {"Connected"} ELSE {}]

TcpTransition(s, t) == Resolve(TcpPermits, TcpSuper, s, t)

\* The client: its machine's state, _sendBuffer, the bytes the socket has
\* taken, the delegates it has queued on the event loop, the events it has
\* emitted, the exception its last call threw, the depth of the Fire(Send)
\* recursion a Send call is in, and the arguments of the Send calls accepted;
\* whether a TcpServer made it for a connection it accepted, and whether the
\* server has deleted it.
TcpStart ==
    tcp = [state |-> "Idle", sendBuffer |-> <<>>, wire |-> <<>>,
           pending |-> {}, events |-> <<>>, error |-> "none", depth |-> 0,
           sent |-> <<>>, sends |-> 0, reads |-> 0, history |-> <<"Idle">>,
           accepted |-> FALSE, freed |-> FALSE]

TcpIdle == tcp.depth = 0 /\ tcp.error \notin {"Terminated"}

\* _stateMutator(destination): the state changes; `history` lists the states
\* the client has been in, a run of entries of Sending counted once.
Enter(c, s) ==
    [c EXCEPT !.state = s,
              !.history = IF s = "Sending" /\ c.state = "Sending" THEN @
                          ELSE Append(@, s)]

Emit(c, event) == [c EXCEPT !.events = Append(@, event)]

Throw(c, exception) == [c EXCEPT !.error = exception]

\* Mutant: the send buffer survives the connection.
Connected_OnEntryKeepsBuffer(c) ==
    [Emit(c, "ClientConnected") EXCEPT !.pending = @ \cup {"Connected_Update"}]

\* Connected_OnEntry
Connected_OnEntry(c) ==
    [Emit([c EXCEPT !.sendBuffer = <<>>], "ClientConnected")
        EXCEPT !.pending = @ \cup {"Connected_Update"}]

\* Disconnected_OnEntry: on ClientDisconnected, TcpServer::OnClientDisconnected
\* deletes the client it accepted.
Disconnected_OnEntry(c) ==
    [Emit(c, "ClientDisconnected") EXCEPT !.freed = c.accepted]

\* _stateMachine.Fire(trigger) for the triggers whose destination's entry
\* handler fires nothing itself (Connected, Disconnected).
TcpFire(c, t) ==
    LET r == TcpTransition(c.state, t)
        d == Enter(c, r.dest)
    IN  IF r.kind = "none" THEN Throw(c, "UndefinedTriggerException")
        ELSE IF r.dest = "Connected" THEN Connected_OnEntry(d)
        ELSE IF r.dest = "Disconnected" THEN Disconnected_OnEntry(d)
        ELSE d

\* Mutant: a poll that finds the socket neither writable nor in error gives
\* the connection up.
Connecting_OnEntryTimesOut(c, writable, failed) ==
    IF writable THEN TcpFire(c, "Connected")
    ELSE IF failed THEN TcpFire(c, "Disconnected")
    ELSE TcpFire(c, "Timeout")

\* Connecting_OnEntry, for what Poll(SelectMode_Write) and
\* Poll(SelectMode_Error) answer.
Connecting_OnEntry(c, writable, failed) ==
    IF writable THEN TcpFire(c, "Connected")
    ELSE IF failed THEN TcpFire(c, "Disconnected")
    ELSE [c EXCEPT !.pending = @ \cup {"Connecting_OnEntry"}]

\* TcpClient::Connect: Socket::Connect, then Fire(Trigger_Connect).
TcpConnect ==
    /\ TcpIdle
    /\ \E writable \in BOOLEAN, failed \in BOOLEAN :
           LET r == TcpTransition(tcp.state, "Connect")
               c == [tcp EXCEPT !.error = "none"]
           IN  tcp' = IF r.kind = "none"
                      THEN Throw(c, "UndefinedTriggerException")
                      ELSE Connecting_OnEntry(Enter(c, r.dest), writable,
                                              failed)
    /\ TcpFrame

\* TcpClient::AssumeConnected, called by TcpServer for a client it accepted.
AssumeConnected ==
    /\ TcpIdle
    /\ tcp.state = "Idle"
    /\ tcp' = TcpFire([tcp EXCEPT !.error = "none", !.accepted = TRUE],
                      "Connected")
    /\ TcpFrame

\* TcpClient::Disconnect
TcpDisconnect ==
    /\ TcpIdle
    /\ tcp' = TcpFire([tcp EXCEPT !.error = "none"], "Disconnected")
    /\ TcpFrame

\* The event loop runs the queued Connecting_OnEntry.  An exception leaves
\* Thread::Run: the program ends.
RunConnecting ==
    /\ TcpIdle
    /\ "Connecting_OnEntry" \in tcp.pending
    /\ \E writable \in BOOLEAN, failed \in BOOLEAN :
           LET c == [tcp EXCEPT !.pending = @ \ {"Connecting_OnEntry"},
                                !.error = "none"]
               d == Connecting_OnEntry(c, writable, failed)
           IN  tcp' = IF d.error = "none" THEN d
                      ELSE [d EXCEPT !.error = "Terminated"]
    /\ TcpFrame

\* Connected_Update, run by the event loop: Poll(SelectMode_Read), Receive.
\* `data` is what Receive returns, empty when the peer has closed.
Connected_Update(c, readable, data) ==
    IF readable THEN
        IF data = <<>> THEN TcpFire(c, "Disconnected")
        ELSE [Emit(c, "DataReceived") EXCEPT
                 !.pending = @ \cup {"Connected_Update"}, !.reads = @ + 1]
    ELSE [c EXCEPT !.pending = @ \cup {"Connected_Update"}]

\* The event loop runs the queued Connected_Update.  On a client that has
\* been deleted the call reads freed memory: it may do what it would have
\* done on the live object, or fault.
RunUpdate ==
    /\ TcpIdle
    /\ "Connected_Update" \in tcp.pending
    /\ \E readable \in BOOLEAN, data \in {<<>>, <<"x">>}, fault \in BOOLEAN :
           /\ data /= <<>> => tcp.reads < MaxReads
           /\ fault => tcp.freed
           /\ LET c == [tcp EXCEPT !.pending = @ \ {"Connected_Update"},
                                   !.error = "none"]
                  d == Connected_Update(c, readable, data)
              IN  tcp' = IF fault THEN [c EXCEPT !.error = "Terminated"]
                         ELSE IF d.error = "none" THEN d
                         ELSE [d EXCEPT !.error = "Terminated"]
    /\ TcpFrame

\* TcpClient::Send: _sendBuffer += value, then Fire(Trigger_Send).  In
\* Connected or Sending the machine enters Sending and Sending_OnEntry runs.
TcpSend(value) ==
    /\ TcpIdle
    /\ tcp.sends < MaxSends
    /\ LET r == TcpTransition(tcp.state, "Send")
           c == [tcp EXCEPT !.sendBuffer = @ \o value, !.error = "none",
                            !.sends = @ + 1]
       IN  tcp' = IF r.kind = "none"
                  THEN Throw(c, "UndefinedTriggerException")
                  ELSE [Enter(c, r.dest) EXCEPT !.depth = 1,
                                                !.sent = @ \o value]
    /\ TcpFrame

\* Mutant: the bytes the socket took stay in the buffer.
SendingEraseNothing(c, count) == [c EXCEPT !.wire = @ \o Substr(c.sendBuffer, count)]

\* Sending_OnEntry once Socket::Send has taken `count` bytes: they are erased
\* from _sendBuffer.
SendingErase(c, count) ==
    [c EXCEPT !.wire = @ \o Substr(c.sendBuffer, count),
              !.sendBuffer = Erase(@, count)]

\* Sending_OnEntry: Socket::Send takes any number of the queued bytes (none
\* when it would block); while bytes remain, Fire(Trigger_Send) enters Sending
\* again, inside the same call.
Sending_OnEntry ==
    /\ tcp.depth > 0
    /\ tcp.error = "none"
    /\ \E count \in 0..Len(tcp.sendBuffer) :
           LET c == SendingErase(tcp, count)
           IN  /\ tcp.depth = MaxSendDepth => c.sendBuffer = <<>>
               /\ tcp' = IF c.sendBuffer = <<>> THEN [c EXCEPT !.depth = 0]
                         ELSE [c EXCEPT !.depth = @ + 1]
    /\ TcpFrame

\* Socket::Send fails with an error other than would-block: SendException
\* leaves Sending_OnEntry and every Fire under it, the buffer as it is.
SendFails ==
    /\ tcp.depth > 0
    /\ tcp.error = "none"
    /\ tcp' = [Throw(tcp, "SendException") EXCEPT !.depth = 0]
    /\ TcpFrame

TcpStep ==
    \/ TcpConnect
    \/ AssumeConnected
    \/ TcpDisconnect
    \/ RunConnecting
    \/ RunUpdate
    \/ \E value \in SendArgs : TcpSend(value)
    \/ Sending_OnEntry
    \/ SendFails

\* The client whose peer never answers: every Poll of Connect and of the
\* queued Connecting_OnEntry finds the socket neither writable nor in error.
StuckConnect ==
    /\ TcpIdle
    /\ LET r == TcpTransition(tcp.state, "Connect")
           c == [tcp EXCEPT !.error = "none"]
       IN  tcp' = IF r.kind = "none"
                  THEN Throw(c, "UndefinedTriggerException")
                  ELSE Connecting_OnEntry(Enter(c, r.dest), FALSE, FALSE)
    /\ TcpFrame

StuckPoll ==
    /\ TcpIdle
    /\ "Connecting_OnEntry" \in tcp.pending
    /\ LET c == [tcp EXCEPT !.pending = @ \ {"Connecting_OnEntry"},
                            !.error = "none"]
           d == Connecting_OnEntry(c, FALSE, FALSE)
       IN  tcp' = IF d.error = "none" THEN d
                  ELSE [d EXCEPT !.error = "Terminated"]
    /\ TcpFrame

StuckStep ==
    \/ StuckConnect
    \/ StuckPoll
    \/ \E value \in SendArgs : TcpSend(value)

(***************************************************************************)
(* std::string and String.hpp, on strings held as sequences of characters. *)
(***************************************************************************)
NPos == 0 - 1

\* str.find(pattern, from): the first 0-based position at or after `from`
\* where pattern occurs, NPos when there is none.
Find(str, pattern, from) ==
    LET hits == {i \in from..(Len(str) - Len(pattern)) :
                    SubSeq(str, i + 1, i + Len(pattern)) = pattern}
    IN  IF hits = {} THEN NPos ELSE Min(hits)

\* str.substr(pos, count) for pos <= size; a count that wrapped below zero
\* is npos, the rest of the string.
SubstrAt(str, pos, count) ==
    LET last == IF count < 0 \/ pos + count > Len(str)
                THEN Len(str) ELSE pos + count
    IN  SubSeq(str, pos + 1, last)

UpperCase ==
    <<"A", "B", "C", "D", "E", "F", "G", "H", "I", "J", "K", "L", "M",
      "N", "O", "P", "Q", "R", "S", "T", "U", "V", "W", "X", "Y", "Z">>

LowerCase ==
    <<"a", "b", "c", "d", "e", "f", "g", "h", "i", "j", "k", "l", "m",
      "n", "o", "p", "q", "r", "s", "t", "u", "v", "w", "x", "y", "z">>

\* ::tolower
ToLower(c) ==
    IF \E i \in DOMAIN UpperCase : UpperCase[i] = c
    THEN LowerCase[CHOOSE i \in DOMAIN UpperCase : UpperCase[i] = c]
    ELSE c

\* String::ToLowerCase
ToLowerCase(str) == [i \in DOMAIN str |-> ToLower(str[i])]

HexDigits ==
    <<"0", "1", "2", "3", "4", "5", "6", "7", "8", "9",
      "a", "b", "c", "d", "e", "f">>

WhiteSpace == {" ", "\t", "\r", "\n"}

\* The value of a digit in a base, NPos when it is not a digit of that base.
DigitValue(c, base) ==
    LET at == {i \in 1..base : HexDigits[i] = ToLower(c)}
    IN  IF at = {} THEN NPos ELSE Min(at) - 1

RECURSIVE ParseDigits(_, _, _, _, _)
ParseDigits(str, i, base, acc, any) ==
    IF i > Len(str) \/ DigitValue(str[i], base) = NPos
    THEN IF any THEN acc ELSE NPos
    ELSE ParseDigits(str, i + 1, base,
                     acc * base + DigitValue(str[i], base), TRUE)

\* String::Convert<T>(value, modifier): stream >> modifier >> result skips
\* leading white space and reads the digits that follow; NPos stands for the
\* failed stream, on which Convert throws InvalidFormatException.  The
\* values converted here carry no sign and no 0x prefix.
Convert(str, base) ==
    LET start == {i \in 1..Len(str) : str[i] \notin WhiteSpace}
    IN  IF start = {} THEN NPos
        ELSE ParseDigits(str, Min(start), base, 0, FALSE)

\* String::Format("%x", n)
RECURSIVE FormatHex(_)
FormatHex(n) ==
    IF n < 16 THEN <<HexDigits[n + 1]>>
    ELSE FormatHex(n \div 16) \o <<HexDigits[(n % 16) + 1]>>

CRLF == <<"\r", "\n">>

\* The header names and values HeaderLineEntered compares against.
KeyTransferEncoding ==
    <<"t", "r", "a", "n", "s", "f", "e", "r", "-", "e", "n", "c", "o", "d",
      "i", "n", "g">>

ValueChunked ==
    <<"c", "h", "u", "n", "k", "e", "d">>

KeyContentLength ==
    <<"c", "o", "n", "t", "e", "n", "t", "-", "l", "e", "n", "g", "t", "h">>

KeyConnection ==
    <<"c", "o", "n", "n", "e", "c", "t", "i", "o", "n">>

ValueClose ==
    <<"c", "l", "o", "s", "e">>

\* What OnLastHeaderEntered and End write.
ChunkedHeader ==
    <<"T", "r", "a", "n", "s", "f", "e", "r", "-", "E", "n", "c", "o", "d",
      "i", "n", "g", ":", " ", "c", "h", "u", "n", "k", "e", "d", "\r",
      "\n", "\r", "\n">>

LastChunk ==
    <<"0", "\r", "\n", "\r", "\n">>

\* The texts of the requests and responses exchanged.
TextGet ==
    <<"G", "E", "T">>

TextPath ==
    <<"/">>

TextHttp11 ==
    <<"H", "T", "T", "P", "/", "1", ".", "1">>

TextHost ==
    <<"H", "o", "s", "t">>

TextX ==
    <<"x">>

TextHi ==
    <<"h", "i">>

TextStatus ==
    <<"H", "T", "T", "P", "/", "1", ".", "1", " ", "2", "0", "0", " ", "O",
      "K">>

TextContentLength ==
    <<"C", "o", "n", "t", "e", "n", "t", "-", "L", "e", "n", "g", "t", "h">>

TextTransferEncoding ==
    <<"T", "r", "a", "n", "s", "f", "e", "r", "-", "E", "n", "c", "o", "d",
      "i", "n", "g">>

TextChunked ==
    <<"c", "h", "u", "n", "k", "e", "d">>

TextConnection ==
    <<"C", "o", "n", "n", "e", "c", "t", "i", "o", "n">>

TextClose ==
    <<"c", "l", "o", "s", "e">>

TextHello ==
    <<"h", "e", "l", "l", "o">>

TextAbc ==
    <<"a", "b", "c">>

TextDe ==
    <<"d", "e">>

TextDate ==
    <<"D", "a", "t", "e">>

TextNow ==
    <<"n", "o", "w">>

(***************************************************************************)
(* HttpClient  (http/HttpClient.hpp)                                       *)
(***************************************************************************)
\* Bounds of the HTTP client model.  A read returns up to MaxRead bytes, or
\* all the bytes the server has sent.
MaxRequests == 2
MaxHeaders == 1
MaxChunks == 2
MaxRead == 6

HttpStates ==
    { "WaitForConnection", "Connected", "RequestActionLine",
      "RequestHeaderLine", "RequestLastHeader", "RequestChunk",
      "ResponseActionLine", "ResponseHeaderLine",
      "ResponseHeaderLineAndTransferEncodingChunked",
      "ResponseHeaderLineAndContentLength",
      "ResponseHeaderLineConnectionClose",
      "ResponseHeaderLineAndContentLengthAndConnectionClose",
      "ResponseHeaderLineAndTransferEncodingChunkedAndConnectionClose",
      "ResponseContent", "ResponseContentUntilClosed", "ResponseChunkSize",
      "ResponseChunkSizeAndConnectionClose", "ResponseChunk",
      "ResponseChunkAndConnectionClose", "EndOfResponseContentUntilClosed",
      "EndOfResponse", "WaitForDisconnect" }

\* Mutant: a header may follow the first Send.
RequestPermitsHeaderAfterSend ==
    { P("WaitForConnection", "Continue", "WaitForConnection"),
      P("WaitForConnection", "Break", "WaitForConnection"),
      P("WaitForConnection", "Connected", "Connected"),
      P("Connected", "Disconnect", "WaitForConnection"),
      P("Connected", "RequestBegin", "RequestActionLine"),
      P("RequestActionLine", "Disconnect", "WaitForConnection"),
      P("RequestActionLine", "RequestHeader", "RequestHeaderLine"),
      P("RequestActionLine", "RequestChunk", "RequestLastHeader"),
      P("RequestHeaderLine", "Disconnect", "WaitForConnection"),
      P("RequestHeaderLine", "RequestHeader", "RequestHeaderLine"),
      P("RequestHeaderLine", "RequestChunk", "RequestLastHeader"),
      P("RequestLastHeader", "Disconnect", "WaitForConnection"),
      P("RequestLastHeader", "Break", "RequestChunk"),
      P("RequestChunk", "Disconnect", "WaitForConnection"),
      P("RequestChunk", "RequestChunk", "RequestChunk"),
      P("RequestChunk", "RequestHeader", "RequestChunk"),
      P("RequestChunk", "RequestEnd", "ResponseActionLine") }

\* The configuration the constructor builds: the request side,
RequestPermits ==
    { P("WaitForConnection", "Continue", "WaitForConnection"),
      P("WaitForConnection", "Break", "WaitForConnection"),
      P("WaitForConnection", "Connected", "Connected"),
      P("Connected", "Disconnect", "WaitForConnection"),
      P("Connected", "RequestBegin", "RequestActionLine"),
      P("RequestActionLine", "Disconnect", "WaitForConnection"),
      P("RequestActionLine", "RequestHeader", "RequestHeaderLine"),
      P("RequestActionLine", "RequestChunk", "RequestLastHeader"),
      P("RequestHeaderLine", "Disconnect", "WaitForConnection"),
      P("RequestHeaderLine", "RequestHeader", "RequestHeaderLine"),
      P("RequestHeaderLine", "RequestChunk", "RequestLastHeader"),
      P("RequestLastHeader", "Disconnect", "WaitForConnection"),
      P("RequestLastHeader", "Break", "RequestChunk"),
      P("RequestChunk", "Disconnect", "WaitForConnection"),
      P("RequestChunk", "RequestChunk", "RequestChunk"),
      P("RequestChunk", "RequestEnd", "ResponseActionLine") }

\* the response header block,
HeaderPermits ==
    LET H == "ResponseHeaderLine"
        TE == "ResponseHeaderLineAndTransferEncodingChunked"
        CL == "ResponseHeaderLineAndContentLength"
        CC == "ResponseHeaderLineConnectionClose"
        CLCC == "ResponseHeaderLineAndContentLengthAndConnectionClose"
        TECC ==
            "ResponseHeaderLineAndTransferEncodingChunkedAndConnectionClose"
    IN  { P("ResponseActionLine", "Disconnect", "WaitForConnection"),
          P("ResponseActionLine", "Continue", "ResponseActionLine"),
          P("ResponseActionLine", "Break", H),
          P(H, "Disconnect", "WaitForConnection"),
          P(H, "Continue", H),
          P(H, "TransferEncodingChunked", TE),
          P(H, "ContentLength", CL),
          P(H, "ConnectionClose", CC),
          P(H, "Break", "ResponseContent"),
          P(TE, "Disconnect", "WaitForConnection"),
          P(TE, "Continue", TE),
          P(TE, "ConnectionClose", TECC),
          P(TE, "Break", "ResponseChunkSize"),
          P(CL, "Disconnect", "WaitForConnection"),
          P(CL, "ConnectionClose", CLCC),
          P(CL, "Continue", CL),
          P(CL, "Break", "ResponseContent"),
          P(CC, "Disconnect", "WaitForConnection"),
          P(CC, "ContentLength", CLCC),
          P(CC, "TransferEncodingChunked", TECC),
          P(CC, "Continue", CC),
          P(CC, "Break", "ResponseContentUntilClosed"),
          P(CLCC, "Disconnect", "WaitForConnection"),
          P(CLCC, "Continue", CLCC),
          P(CLCC, "Break", "ResponseContentUntilClosed"),
          P(TECC, "Disconnect", "WaitForConnection"),
          P(TECC, "Continue", TECC),
          P(TECC, "Break", "ResponseChunkSizeAndConnectionClose") }

\* the response body,
ContentPermits ==
    LET UC == "ResponseContentUntilClosed"
        EUC == "EndOfResponseContentUntilClosed"
        CS == "ResponseChunkSize"
        CSCC == "ResponseChunkSizeAndConnectionClose"
        CH == "ResponseChunk"
        CHCC == "ResponseChunkAndConnectionClose"
    IN  { P(UC, "Disconnect", EUC),
          P(UC, "Continue", UC),
          P(UC, "Break", EUC),
          P("ResponseContent", "Disconnect", "WaitForConnection"),
          P("ResponseContent", "Continue", "ResponseContent"),
          P("ResponseContent", "Break", "EndOfResponse"),
          P(CS, "Disconnect", "WaitForConnection"),
          P(CS, "Continue", CS),
          P(CS, "EndOfChunks", "EndOfResponse"),
          P(CS, "Break", CH),
          P(CSCC, "Disconnect", "WaitForConnection"),
          P(CSCC, "Continue", CSCC),
          P(CSCC, "EndOfChunks", EUC),
          P(CSCC, "Break", CHCC),
          P(CH, "Disconnect", "WaitForConnection"),
          P(CH, "Continue", CH),
          P(CH, "Break", CS),
          P(CHCC, "Disconnect", "WaitForConnection"),
          P(CHCC, "Continue", CHCC),
          P(CHCC, "Break", CSCC),
          P(EUC, "Disconnect", "WaitForConnection"),
          P(EUC, "Continue", EUC),
          P(EUC, "Break", "WaitForDisconnect"),
          P("WaitForDisconnect", "Disconnect", "WaitForConnection") }

\* Mutant: State_EndOfResponse takes Trigger_Continue too, to itself.
EndPermitsContinue ==
    { P("EndOfResponse", "Disconnect", "WaitForConnection"),
      P("EndOfResponse", "RequestBegin", "RequestActionLine"),
      P("EndOfResponse", "Continue", "EndOfResponse") }

\* and the end of the response.
EndPermits ==
    { P("EndOfResponse", "Disconnect", "WaitForConnection"),
      P("EndOfResponse", "RequestBegin", "RequestActionLine") }

HttpPermits ==
    RequestPermits \cup HeaderPermits \cup ContentPermits \cup EndPermits

HttpSuper == [s \in HttpStates |-> {}]

HttpTransition(s, t) == Resolve(HttpPermits, HttpSuper, s, t)

\* The client after construction: the machine's state, _buffer and
\* _contentLength; then what surrounds it: the connection (link), the bytes
\* the server has still to deliver for the response under way (stream) and
\* which response that is (resp), whether the connection closed with some of
\* them undelivered (cut), the bytes passed to TcpClient::Send for the
\* request under way, until its response starts (out), the events emitted
\* since the last Begin or ResponseStarted (log), the kind of the event
\* emitted just before those (before), the exception the step's request call
\* threw (error) and the exception that left an event handler (raised), after
\* which the event loop is gone.
\* The request calls behind the bytes of `out`: how many SendHeader calls,
\* the data of the Send calls, and whether End was called.
NoCall == [headers |-> 0, parts |-> <<>>, ended |-> FALSE]

HttpStart ==
    http = [state |-> "WaitForConnection", buffer |-> <<>>,
            contentLength |-> 0, link |-> "idle", stream |-> <<>>,
            resp |-> "none", cut |-> FALSE, out |-> <<>>, log |-> <<>>, before |-> "none",
            error |-> "none", raised |-> "none",
            requests |-> 0, headers |-> 0, chunks |-> 0, bytewise |-> TRUE,
            call |-> NoCall]

Event(kind, key, value, code) ==
    [kind |-> kind, key |-> key, value |-> value, code |-> code]

LastKind(h) == IF h.log = <<>> THEN h.before ELSE h.log[Len(h.log)].kind

Log(h, event) ==
    IF event.kind = "ResponseStarted"
    THEN [h EXCEPT !.log = <<event>>, !.before = LastKind(h), !.out = <<>>,
                   !.call = NoCall]
    ELSE [h EXCEPT !.log = Append(@, event)]

\* TcpClient::Send, called on a connected client.
SocketSend(h, bytes) == [h EXCEPT !.out = @ \o bytes]

RECURSIVE HttpFire(_, _)

\* OnWaitForConnectionEntered
OnWaitForConnectionEntered(h) == [h EXCEPT !.buffer = <<>>]

\* OnLastHeaderEntered
\* Mutant: the chunked header is not announced.
OnLastHeaderSilent(h) == HttpFire(h, "Break")

OnLastHeaderEntered(h) == HttpFire(SocketSend(h, ChunkedHeader), "Break")


\* ActionLineEntered
ActionLineEntered(h) ==
    LET endOfProtocol == Find(h.buffer, <<" ">>, 0)
        endOfCode == Find(h.buffer, <<" ">>, endOfProtocol + 1)
        endOfDescription == Find(h.buffer, CRLF, endOfCode + 1)
        protocol == SubstrAt(h.buffer, 0, endOfProtocol)
        code == Convert(SubstrAt(h.buffer, endOfProtocol + 1,
                                 endOfCode - endOfProtocol - 1), 10)
        description == SubstrAt(h.buffer, endOfCode + 1,
                                endOfDescription - endOfCode - 1)
    IN  IF endOfProtocol = NPos THEN h
        ELSE IF endOfCode = NPos THEN h
        ELSE IF endOfDescription = NPos THEN h
        ELSE IF code = NPos THEN [h EXCEPT !.raised = "InvalidFormatException"]
        ELSE HttpFire(
                 Log([h EXCEPT !.buffer = Erase(@, endOfDescription + 2),
                               !.contentLength = 0],
                     Event("ResponseStarted", protocol, description, code)),
                 "Break")

\* HeaderLineEntered
HeaderLineEntered(h) ==
    LET endOfValue == Find(h.buffer, CRLF, 0)
        endOfKey == Find(h.buffer, <<":">>, 0)
        key == SubstrAt(h.buffer, 0, endOfKey)
        value == SubstrAt(h.buffer, endOfKey + 2, endOfValue - endOfKey - 2)
        g == Log([h EXCEPT !.buffer = Erase(@, endOfValue + 2)],
                 Event("HeaderReceived", key, value, 0))
    IN  IF endOfValue = NPos THEN h
        ELSE IF endOfValue = 0 THEN
            HttpFire([h EXCEPT !.buffer = Erase(@, 2)], "Break")
        ELSE IF endOfKey = NPos THEN h
        ELSE IF endOfKey + 2 > Len(h.buffer) THEN
            [h EXCEPT !.raised = "std::out_of_range"]
        ELSE IF /\ ToLowerCase(key) = KeyTransferEncoding
                /\ ToLowerCase(value) = ValueChunked THEN
            HttpFire(g, "TransferEncodingChunked")
        ELSE IF ToLowerCase(key) = KeyContentLength THEN
            IF Convert(value, 10) = NPos
            THEN [g EXCEPT !.raised = "InvalidFormatException"]
            ELSE HttpFire([g EXCEPT !.contentLength = Convert(value, 10)],
                          "ContentLength")
        ELSE IF /\ ToLowerCase(key) = KeyConnection
                /\ ToLowerCase(value) = ValueClose THEN
            HttpFire(g, "ConnectionClose")
        ELSE HttpFire(g, "Continue")

\* ContentUntilClosedEntered
ContentUntilClosedEntered(h) ==
    IF h.buffer /= <<>> THEN
        HttpFire(Log([h EXCEPT !.buffer = <<>>],
                     Event("ContentReceived", <<>>, h.buffer, 0)),
                 "Continue")
    ELSE h

\* Mutant: the bytes delivered are not counted off _contentLength.
TakeContentUncounted(h) ==
    LET count == IF h.contentLength < Len(h.buffer)
                 THEN h.contentLength ELSE Len(h.buffer)
    IN  Log([h EXCEPT !.buffer = Erase(@, count)],
            Event("ContentReceived", <<>>, SubstrAt(h.buffer, 0, count), 0))

\* The body of ContentEntered and ChunkEntered for a non-empty buffer: up to
\* _contentLength bytes leave the buffer as one ContentReceived.
TakeContent(h) ==
    LET count == IF h.contentLength < Len(h.buffer)
                 THEN h.contentLength ELSE Len(h.buffer)
    IN  Log([h EXCEPT !.buffer = Erase(@, count),
                      !.contentLength = @ - count],
            Event("ContentReceived", <<>>, SubstrAt(h.buffer, 0, count), 0))

\* ContentEntered
ContentEntered(h) ==
    IF h.contentLength = 0 THEN HttpFire(h, "Break")
    ELSE IF h.buffer /= <<>> THEN HttpFire(TakeContent(h), "Continue")
    ELSE h

\* ChunkSizeEntered.  For a size of zero the erase is done a second time.
ChunkSizeEntered(h) ==
    LET endOfSize == Find(h.buffer, CRLF, 0)
        size == Convert(SubstrAt(h.buffer, 0, endOfSize), 16)
        g == [h EXCEPT !.contentLength = size,
                       !.buffer = Erase(@, endOfSize + 2)]
    IN  IF endOfSize = NPos THEN h
        ELSE IF size = NPos THEN [h EXCEPT !.raised = "InvalidFormatException"]
        ELSE IF size = 0 THEN
            HttpFire([g EXCEPT !.buffer = Erase(@, endOfSize + 2)],
                     "EndOfChunks")
        ELSE HttpFire(g, "Break")

\* ChunkEntered
ChunkEntered(h) ==
    IF h.contentLength = 0 THEN
        IF Len(h.buffer) >= 2 /\ SubstrAt(h.buffer, 0, 2) = CRLF
        THEN HttpFire([h EXCEPT !.buffer = Erase(@, 2)], "Break")
        ELSE h
    ELSE IF h.buffer /= <<>> THEN HttpFire(TakeContent(h), "Continue")
    ELSE h

\* EndEntered
EndEntered(h) == Log(h, Event("ResponseEnded", <<>>, <<>>, 0))

\* Mutant: the end of a response read until the close is not announced.
EndUntilClosedSilent(h) == HttpFire(h, "Break")

\* EndOfResponseContentUntilClosedEntered
EndOfResponseContentUntilClosedEntered(h) == HttpFire(EndEntered(h), "Break")


\* The entry handler the constructor attaches to each state.
HttpEntry(s, h) ==
    CASE s = "WaitForConnection" -> OnWaitForConnectionEntered(h)
      [] s = "RequestLastHeader" -> OnLastHeaderEntered(h)
      [] s = "ResponseActionLine" -> ActionLineEntered(h)
      [] s \in { "ResponseHeaderLine",
                 "ResponseHeaderLineAndTransferEncodingChunked",
                 "ResponseHeaderLineAndContentLength",
                 "ResponseHeaderLineConnectionClose",
                 "ResponseHeaderLineAndContentLengthAndConnectionClose",
                 "ResponseHeaderLineAndTransferEncodingChunkedAndConnectionClose" }
            -> HeaderLineEntered(h)
      [] s = "ResponseContentUntilClosed" -> ContentUntilClosedEntered(h)
      [] s = "ResponseContent" -> ContentEntered(h)
      [] s \in {"ResponseChunkSize", "ResponseChunkSizeAndConnectionClose"}
            -> ChunkSizeEntered(h)
      [] s \in {"ResponseChunk", "ResponseChunkAndConnectionClose"}
            -> ChunkEntered(h)
      [] s = "EndOfResponseContentUntilClosed"
            -> EndOfResponseContentUntilClosedEntered(h)
      [] s = "EndOfResponse" -> EndEntered(h)
      [] OTHER -> h

\* _stateMachine.Fire(trigger): no state of this machine has an exit handler
\* or a guard.  A Fire reached after an exception was thrown is not run.
HttpFire(h, t) ==
    LET r == HttpTransition(h.state, t)
    IN  IF h.raised /= "none" THEN h
        ELSE IF r.kind = "multi" THEN
            [h EXCEPT !.raised = "MultipleTriggerException"]
        ELSE IF r.kind = "none" THEN
            [h EXCEPT !.raised = "UndefinedTriggerException"]
        ELSE HttpEntry(r.dest, [h EXCEPT !.state = r.dest])

\* The responses a server sends.
StatusLine == TextStatus \o CRLF

HeaderLine(key, value) == key \o <<":", " ">> \o value \o CRLF

ChunkFrame(data) == FormatHex(Len(data)) \o CRLF \o data \o CRLF

RECURSIVE HeaderBlock(_)
HeaderBlock(headers) ==
    IF headers = <<>> THEN CRLF
    ELSE HeaderLine(headers[1][1], headers[1][2]) \o HeaderBlock(Tail(headers))

RECURSIVE Chunks(_)
Chunks(parts) ==
    IF parts = <<>> THEN LastChunk
    ELSE ChunkFrame(parts[1]) \o Chunks(Tail(parts))

RECURSIVE Concat(_)
Concat(parts) ==
    IF parts = <<>> THEN <<>> ELSE parts[1] \o Concat(Tail(parts))

\* A response: its header lines, its body and the bytes that carry them.
Response(name, headers, parts, chunked) ==
    [name |-> name, headers |-> headers, body |-> Concat(parts),
     bytes |-> StatusLine \o HeaderBlock(headers)
               \o (IF chunked THEN Chunks(parts) ELSE Concat(parts))]

Responses ==
    { Response("ContentLength", <<(<<TextContentLength, <<"5">>>>)>>,
               <<TextHello>>, FALSE),
      Response("ContentLengthZero",
               <<(<<TextDate, TextNow>>), (<<TextContentLength, <<"0">>>>)>>,
               <<>>, FALSE),
      Response("Chunked", <<(<<TextTransferEncoding, TextChunked>>)>>,
               <<TextAbc, TextDe>>, TRUE),
      Response("ConnectionClose", <<(<<TextConnection, TextClose>>)>>,
               <<TextHi>>, FALSE),
      Response("LengthThenClose",
               <<(<<TextContentLength, <<"5">>>>),
                 (<<TextConnection, TextClose>>)>>, <<TextHello>>, FALSE),
      Response("LengthThenChunked",
               <<(<<TextContentLength, <<"5">>>>),
                 (<<TextTransferEncoding, TextChunked>>)>>, <<TextHello>>,
               FALSE) }


HttpRunning == http.raised = "none"

\* An exception that leaves a request call reaches the caller.
Caught(h) ==
    IF h.raised = "none" THEN h
    ELSE [h EXCEPT !.error = h.raised, !.raised = "none"]

\* OnClientConnected, on the TcpClient's ClientConnected.
OnClientConnected ==
    /\ HttpRunning
    /\ http.link = "idle"
    /\ http' = HttpFire([http EXCEPT !.link = "connected", !.error = "none"],
                        "Connected")
    /\ HttpFrame

\* OnClientDisconnected, on the TcpClient's ClientDisconnected: the
\* connection could not be made, the peer closed it or Disconnect was called.
OnClientDisconnected ==
    /\ HttpRunning
    /\ http.link \in {"idle", "connected"}
    /\ http' = HttpFire([http EXCEPT !.link = "closed", !.error = "none",
                                     !.cut = http.stream /= <<>>,
                                     !.stream = <<>>],
                        "Disconnect")
    /\ HttpFrame

\* OnDataReceived, on the TcpClient's DataReceived: a read returns the next
\* count bytes the server sent.
OnDataReceived(count) ==
    /\ HttpRunning
    /\ http.link = "connected"
    /\ count \in 1..Len(http.stream)
    /\ http' = HttpFire([http EXCEPT
                            !.buffer = @ \o Substr(http.stream, count),
                            !.stream = Erase(@, count),
                            !.bytewise = @ /\ count = 1,
                            !.error = "none"],
                        "Continue")
    /\ HttpFrame

\* HttpClient::Begin
Begin ==
    /\ HttpRunning
    /\ http.requests < MaxRequests
    /\ LET g == HttpFire([http EXCEPT !.error = "none"], "RequestBegin")
       IN  http' =
               IF g.raised /= "none" THEN Caught(g)
               ELSE SocketSend([g EXCEPT !.requests = @ + 1, !.headers = 0,
                                         !.chunks = 0, !.out = <<>>,
                                         !.call = NoCall,
                                         !.resp = "none",
                                         !.log = <<>>,
                                         !.before = LastKind(g)],
                               TextGet \o <<" ">> \o TextPath \o <<" ">>
                               \o TextHttp11 \o CRLF)
    /\ HttpFrame

\* HttpClient::SendHeader
SendHeader ==
    /\ HttpRunning
    /\ http.headers < MaxHeaders
    /\ LET g == HttpFire([http EXCEPT !.error = "none"], "RequestHeader")
       IN  http' =
               IF g.raised /= "none" THEN Caught(g)
               ELSE SocketSend([g EXCEPT !.headers = @ + 1,
                                         !.call.headers = @ + 1],
                               HeaderLine(TextHost, TextX))
    /\ HttpFrame

\* HttpClient::Send
HttpSend(data) ==
    /\ HttpRunning
    /\ http.chunks < MaxChunks
    /\ LET g == HttpFire([http EXCEPT !.error = "none"], "RequestChunk")
           c == [g EXCEPT !.chunks = @ + 1, !.call.parts = Append(@, data)]
       IN  http' =
               IF g.raised /= "none" THEN Caught(g)
               ELSE IF data /= <<>> THEN SocketSend(c, ChunkFrame(data))
               ELSE c
    /\ HttpFrame

\* HttpClient::End.  The server answers the request with `response`.
End(response) ==
    /\ HttpRunning
    /\ LET g == HttpFire([http EXCEPT !.error = "none"], "RequestEnd")
       IN  http' =
               IF g.raised /= "none" THEN Caught(g)
               ELSE SocketSend([g EXCEPT !.stream = @ \o response.bytes,
                                         !.resp = response.name,
                                         !.headers = 0, !.chunks = 0,
                                         !.call.ended = TRUE,
                                         !.bytewise = TRUE],
                               LastChunk)
    /\ HttpFrame

HttpStep ==
    \/ OnClientConnected
    \/ OnClientDisconnected
    \/ \E count \in 0..MaxRead :
           OnDataReceived(IF count = 0 THEN Len(http.stream) ELSE count)
    \/ Begin
    \/ SendHeader
    \/ \E data \in {<<>>, TextHi} : HttpSend(data)
    \/ \E response \in Responses : End(response)

(***************************************************************************)
(* HttpServer::HttpClient  (http/HttpServer.hpp): the handler the server   *)
(* creates for each client it accepts.                                     *)
(***************************************************************************)
\* Bounds of the HTTP server model.
MaxPeerRequests == 2
MaxResponseHeaders == 1
MaxResponseChunks == 2

TextPost ==
    <<"P", "O", "S", "T">>

TextOk ==
    <<"O", "K">>

\* What LastHeaderAndConnectionCloseEntered writes.
CloseHeader ==
    <<"C", "o", "n", "n", "e", "c", "t", "i", "o", "n", ":", " ", "c", "l",
      "o", "s", "e", "\r", "\n", "\r", "\n">>

ServerStates ==
    { "RequestActionLine", "RequestHeaderLine",
      "RequestHeaderLineAndConnectionClose",
      "RequestHeaderLineAndContentLength",
      "RequestHeaderLineAndTransferEncodingChunked",
      "RequestHeaderLineAndContentLengthAndConnectionClose",
      "RequestHeaderLineAndTransferEncodingChunkedAndConnectionClose",
      "RequestContent", "RequestChunkSize", "RequestChunk", "EndOfRequest",
      "ResponseActionLine", "ResponseHeaderLine", "ResponseLastHeader",
      "ResponseChunk", "RequestContentAndConnectionClose",
      "RequestChunkSizeAndConnectionClose",
      "RequestChunkAndConnectionClose", "EndOfRequestAndConnectionClose",
      "ResponseActionLineAndConnectionClose",
      "ResponseHeaderLineAndConnectionClose",
      "ResponseLastHeaderAndConnectionClose",
      "ResponseChunkAndConnectionClose", "ConnectionClose" }

\* The configuration the constructor builds: the request header block,
ServerHeaderPermits ==
    LET H == "RequestHeaderLine"
        CC == "RequestHeaderLineAndConnectionClose"
        CL == "RequestHeaderLineAndContentLength"
        TE == "RequestHeaderLineAndTransferEncodingChunked"
        CLCC == "RequestHeaderLineAndContentLengthAndConnectionClose"
        TECC ==
            "RequestHeaderLineAndTransferEncodingChunkedAndConnectionClose"
    IN  { P("RequestActionLine", "Continue", "RequestActionLine"),
          P("RequestActionLine", "Break", H),
          P(H, "Continue", H),
          P(H, "TransferEncodingChunked", TE),
          P(H, "ContentLength", CL),
          P(H, "ConnectionClose", CC),
          P(H, "Break", "RequestContent"),
          P(CC, "Continue", CC),
          P(CC, "TransferEncodingChunked", TECC),
          P(CC, "ContentLength", CLCC),
          P(CC, "Break", "RequestContentAndConnectionClose"),
          P(CLCC, "Continue", CLCC),
          P(CLCC, "Break", "RequestContentAndConnectionClose"),
          P(TECC, "Continue", TECC),
          P(TECC, "Break", "RequestChunkSizeAndConnectionClose"),
          P(TE, "Continue", TE),
          P(TE, "ConnectionClose", TECC),
          P(TE, "Break", "RequestChunkSize"),
          P(CL, "Continue", CL),
          P(CL, "ConnectionClose", CLCC),
          P(CL, "Break", "RequestContent") }

\* the request body,
ServerContentPermits ==
    LET C == "RequestContent"
        CCC == "RequestContentAndConnectionClose"
        CS == "RequestChunkSize"
        CSCC == "RequestChunkSizeAndConnectionClose"
        CH == "RequestChunk"
        CHCC == "RequestChunkAndConnectionClose"
    IN  { P(C, "Continue", C),
          P(C, "Break", "EndOfRequest"),
          P(CCC, "Continue", CCC),
          P(CCC, "Break", "EndOfRequestAndConnectionClose"),
          P(CS, "Continue", CS),
          P(CS, "EndOfChunks", "EndOfRequest"),
          P(CS, "Break", CH),
          P(CSCC, "Continue", CSCC),
          P(CSCC, "EndOfChunks", "EndOfRequestAndConnectionClose"),
          P(CSCC, "Break", CHCC),
          P(CH, "Continue", CH),
          P(CH, "Break", CS),
          P(CHCC, "Continue", CHCC),
          P(CHCC, "Break", CSCC) }

\* and the response.
ServerResponsePermits ==
    LET A == "ResponseActionLine"
        ACC == "ResponseActionLineAndConnectionClose"
        H == "ResponseHeaderLine"
        HCC == "ResponseHeaderLineAndConnectionClose"
        L == "ResponseLastHeader"
        LCC == "ResponseLastHeaderAndConnectionClose"
        CH == "ResponseChunk"
        CHCC == "ResponseChunkAndConnectionClose"
    IN  { P("EndOfRequest", "ResponseBegin", A),
          P("EndOfRequestAndConnectionClose", "ResponseBegin", ACC),
          P(A, "ResponseHeader", H),
          P(ACC, "ResponseHeader", HCC),
          P(H, "ResponseHeader", H),
          P(H, "ResponseChunk", L),
          P(HCC, "ResponseHeader", HCC),
          P(HCC, "ResponseChunk", LCC),
          P(L, "Break", CH),
          P(LCC, "Break", CHCC),
          P(CH, "ResponseChunk", CH),
          P(CH, "ResponseEnd", "RequestActionLine"),
          P(CHCC, "ResponseChunk", CHCC),
          P(CHCC, "ResponseEnd", "ConnectionClose") }

ServerPermits ==
    ServerHeaderPermits \cup ServerContentPermits \cup ServerResponsePermits

ServerSuper == [s \in ServerStates |-> {}]

ServerTransition(s, t) == Resolve(ServerPermits, ServerSuper, s, t)

\* The handler after construction: the machine's state, _buffer and
\* _contentLength; then what surrounds it: the connection (link, closed by
\* the peer or by the server), the bytes the peer has written and the
\* handler has not read (stream), all the bytes it has read (received), the
\* requests the peer has written (sent), how many requests have ended
\* (ended), the events emitted since the last RequestStarted (log) and how
\* many RequestStarted there were (started), the response under way or just
\* completed: the bytes passed to TcpClient::Send (out), its header count
\* (headers), the data of its Send calls (pieces), whether End has completed
\* it (done); the exception the step's response call threw (error) and the
\* exception that left an event handler (raised).
SrvStart ==
    srv = [state |-> "RequestActionLine", buffer |-> <<>>,
           contentLength |-> 0, link |-> "connected", stream |-> <<>>,
           received |-> <<>>, sent |-> <<>>, ended |-> 0, log |-> <<>>,
           started |-> 0, out |-> <<>>, headers |-> 0, pieces |-> <<>>,
           done |-> FALSE, answered |-> 0, error |-> "none", raised |-> "none"]

SrvLog(h, event) ==
    IF event.kind = "RequestStarted"
    THEN [h EXCEPT !.log = <<event>>, !.started = @ + 1]
    ELSE [h EXCEPT !.log = Append(@, event)]

\* _client->Send, on the accepted TcpClient.
ClientSend(h, bytes) == [h EXCEPT !.out = @ \o bytes]

RECURSIVE SrvFire(_, _)

\* HttpServer::HttpClient::ActionLineEntered
SrvActionLineEntered(h) ==
    LET endOfMethod == Find(h.buffer, <<" ">>, 0)
        endOfPath == Find(h.buffer, <<" ">>, endOfMethod + 1)
        endOfProtocol == Find(h.buffer, CRLF, endOfPath + 1)
        method == SubstrAt(h.buffer, 0, endOfMethod)
        path == SubstrAt(h.buffer, endOfMethod + 1,
                         endOfPath - endOfMethod - 1)
        protocol == SubstrAt(h.buffer, endOfPath + 1,
                             endOfProtocol - endOfPath - 1)
    IN  IF endOfMethod = NPos THEN h
        ELSE IF endOfPath = NPos THEN h
        ELSE IF endOfProtocol = NPos THEN h
        ELSE SrvFire(
                 SrvLog([h EXCEPT !.buffer = Erase(@, endOfProtocol + 2),
                                  !.contentLength = 0],
                        Event("RequestStarted", method, path, protocol)),
                 "Break")

\* HttpServer::HttpClient::HeaderLineEntered
SrvHeaderLineEntered(h) ==
    LET endOfValue == Find(h.buffer, CRLF, 0)
        endOfKey == Find(h.buffer, <<":">>, 0)
        key == SubstrAt(h.buffer, 0, endOfKey)
        value == SubstrAt(h.buffer, endOfKey + 2, endOfValue - endOfKey - 2)
        g == SrvLog([h EXCEPT !.buffer = Erase(@, endOfValue + 2)],
                    Event("HeaderReceived", key, value, 0))
    IN  IF endOfValue = NPos THEN h
        ELSE IF endOfValue = 0 THEN
            SrvFire([h EXCEPT !.buffer = Erase(@, 2)], "Break")
        ELSE IF endOfKey = NPos THEN h
        ELSE IF endOfKey + 2 > Len(h.buffer) THEN
            [h EXCEPT !.raised = "std::out_of_range"]
        ELSE IF /\ ToLowerCase(key) = KeyTransferEncoding
                /\ ToLowerCase(value) = ValueChunked THEN
            SrvFire(g, "TransferEncodingChunked")
        ELSE IF ToLowerCase(key) = KeyContentLength THEN
            IF Convert(value, 10) = NPos
            THEN [g EXCEPT !.raised = "InvalidFormatException"]
            ELSE SrvFire([g EXCEPT !.contentLength = Convert(value, 10)],
                         "ContentLength")
        ELSE IF /\ ToLowerCase(key) = KeyConnection
                /\ ToLowerCase(value) = ValueClose THEN
            SrvFire(g, "ConnectionClose")
        ELSE SrvFire(g, "Continue")

\* The body of the server's ContentEntered and ChunkEntered for a non-empty
\* buffer.
SrvTakeContent(h) ==
    LET count == IF h.contentLength < Len(h.buffer)
                 THEN h.contentLength ELSE Len(h.buffer)
    IN  SrvLog([h EXCEPT !.buffer = Erase(@, count),
                         !.contentLength = @ - count],
               Event("ContentReceived", <<>>, SubstrAt(h.buffer, 0, count),
                     0))

\* HttpServer::HttpClient::ContentEntered
SrvContentEntered(h) ==
    IF h.contentLength = 0 THEN SrvFire(h, "Break")
    ELSE IF h.buffer /= <<>> THEN SrvFire(SrvTakeContent(h), "Continue")
    ELSE h

\* HttpServer::HttpClient::ChunkSizeEntered.  For a size of zero the erase is
\* done a second time.
SrvChunkSizeEntered(h) ==
    LET endOfSize == Find(h.buffer, CRLF, 0)
        size == Convert(SubstrAt(h.buffer, 0, endOfSize), 16)
        g == [h EXCEPT !.contentLength = size,
                       !.buffer = Erase(@, endOfSize + 2)]
    IN  IF endOfSize = NPos THEN h
        ELSE IF size = NPos THEN [h EXCEPT !.raised = "InvalidFormatException"]
        ELSE IF size = 0 THEN
            SrvFire([g EXCEPT !.buffer = Erase(@, endOfSize + 2)],
                    "EndOfChunks")
        ELSE SrvFire(g, "Break")

\* HttpServer::HttpClient::ChunkEntered
SrvChunkEntered(h) ==
    IF h.contentLength = 0 THEN
        IF Len(h.buffer) >= 2 /\ SubstrAt(h.buffer, 0, 2) = CRLF
        THEN SrvFire([h EXCEPT !.buffer = Erase(@, 2)], "Break")
        ELSE h
    ELSE IF h.buffer /= <<>> THEN SrvFire(SrvTakeContent(h), "Continue")
    ELSE h

\* HttpServer::HttpClient::EndEntered
SrvEndEntered(h) ==
    SrvLog([h EXCEPT !.ended = @ + 1], Event("RequestEnded", <<>>, <<>>, 0))

\* HttpServer::HttpClient::LastHeaderEntered
LastHeaderEntered(h) == SrvFire(ClientSend(h, ChunkedHeader), "Break")

\* Mutant: the close path announces chunked framing.
LastHeaderAndConnectionCloseChunked(h) ==
    SrvFire(ClientSend(h, ChunkedHeader), "Break")

\* HttpServer::HttpClient::LastHeaderAndConnectionCloseEntered
LastHeaderAndConnectionCloseEntered(h) ==
    SrvFire(ClientSend(h, CloseHeader), "Break")

\* HttpServer::HttpClient::ConnectionCloseEntered: TcpClient::Disconnect
\* emits ClientDisconnected, on which OnClientDisconnected deletes the
\* handler.
ConnectionCloseEntered(h) == [h EXCEPT !.link = "closed by server"]

SrvEntry(s, h) ==
    CASE s = "RequestActionLine" -> SrvActionLineEntered(h)
      [] s \in { "RequestHeaderLine", "RequestHeaderLineAndConnectionClose",
                 "RequestHeaderLineAndContentLength",
                 "RequestHeaderLineAndTransferEncodingChunked",
                 "RequestHeaderLineAndContentLengthAndConnectionClose",
                 "RequestHeaderLineAndTransferEncodingChunkedAndConnectionClose" }
            -> SrvHeaderLineEntered(h)
      [] s \in {"RequestContent", "RequestContentAndConnectionClose"}
            -> SrvContentEntered(h)
      [] s \in {"RequestChunkSize", "RequestChunkSizeAndConnectionClose"}
            -> SrvChunkSizeEntered(h)
      [] s \in {"RequestChunk", "RequestChunkAndConnectionClose"}
            -> SrvChunkEntered(h)
      [] s \in {"EndOfRequest", "EndOfRequestAndConnectionClose"}
            -> SrvEndEntered(h)
      [] s = "ResponseLastHeader" -> LastHeaderEntered(h)
      [] s = "ResponseLastHeaderAndConnectionClose"
            -> LastHeaderAndConnectionCloseEntered(h)
      [] s = "ConnectionClose" -> ConnectionCloseEntered(h)
      [] OTHER -> h

\* _stateMachine.Fire(trigger) of the handler.
SrvFire(h, t) ==
    LET r == ServerTransition(h.state, t)
    IN  IF h.raised /= "none" THEN h
        ELSE IF r.kind = "multi" THEN
            [h EXCEPT !.raised = "MultipleTriggerException"]
        ELSE IF r.kind = "none" THEN
            [h EXCEPT !.raised = "UndefinedTriggerException"]
        ELSE SrvEntry(r.dest, [h EXCEPT !.state = r.dest])

\* String::Format("%d", n)
RECURSIVE FormatDec(_)
FormatDec(n) ==
    IF n < 10 THEN <<HexDigits[n + 1]>>
    ELSE FormatDec(n \div 10) \o <<HexDigits[(n % 10) + 1]>>

\* The code of the responses.
StatusOk == 200

\* What Begin writes.
ResponseLine ==
    TextHttp11 \o <<" ">> \o FormatDec(StatusOk) \o <<" ">> \o TextOk \o CRLF

\* A request a peer writes: whether it asks to close, and its bytes.
Request(name, method, headers, parts, chunked, close) ==
    [name |-> name, close |-> close, body |-> Concat(parts),
     bytes |-> method \o <<" ">> \o TextPath \o <<" ">> \o TextHttp11 \o CRLF
               \o HeaderBlock(headers)
               \o (IF chunked THEN Chunks(parts) ELSE Concat(parts))]

Requests ==
    { Request("Get", TextGet, <<(<<TextHost, TextX>>)>>, <<>>, FALSE, FALSE),
      Request("GetClose", TextGet, <<(<<TextConnection, TextClose>>)>>, <<>>,
              FALSE, TRUE),
      Request("PostChunked", TextPost,
              <<(<<TextTransferEncoding, TextChunked>>)>>, <<TextHi>>, TRUE,
              FALSE),
      Request("PostLengthClose", TextPost,
              <<(<<TextContentLength, <<"2">>>>),
                (<<TextConnection, TextClose>>)>>, <<TextHi>>, FALSE, TRUE) }

\* The handler exists until its TcpClient is disconnected, and the thread
\* runs until an exception leaves an event handler.
SrvRunning == srv.link = "connected" /\ srv.raised = "none"

\* The peer writes a request.
PeerSends(request) ==
    /\ SrvRunning
    /\ Len(srv.sent) < MaxPeerRequests
    /\ srv' = [srv EXCEPT !.stream = @ \o request.bytes,
                          !.sent = Append(@, request), !.error = "none"]
    /\ SrvFrame

\* OnDataReceived, on the TcpClient's DataReceived: a read returns the next
\* count bytes the peer wrote.
SrvOnDataReceived(count) ==
    /\ SrvRunning
    /\ count \in 1..Len(srv.stream)
    /\ srv' = SrvFire([srv EXCEPT
                          !.buffer = @ \o Substr(srv.stream, count),
                          !.received = @ \o Substr(srv.stream, count),
                          !.stream = Erase(@, count),
                          !.error = "none"],
                      "Continue")
    /\ SrvFrame

\* OnClientDisconnected, when the peer closes: the handler is deleted.
SrvOnClientDisconnected ==
    /\ SrvRunning
    /\ srv' = [srv EXCEPT !.link = "closed by peer", !.stream = <<>>,
                          !.error = "none"]
    /\ SrvFrame

\* HttpServer::HttpClient::Begin.  `answered` is the request it answers.
SrvBegin ==
    /\ SrvRunning
    /\ LET g == SrvFire([srv EXCEPT !.error = "none"], "ResponseBegin")
       IN  srv' =
               IF g.raised /= "none" THEN Caught(g)
               ELSE ClientSend([g EXCEPT !.out = <<>>, !.headers = 0,
                                         !.pieces = <<>>, !.done = FALSE,
                                         !.answered = g.started],
                               ResponseLine)
    /\ SrvFrame

\* HttpServer::HttpClient::SendHeader
SrvSendHeader ==
    /\ SrvRunning
    /\ srv.headers < MaxResponseHeaders
    /\ LET g == SrvFire([srv EXCEPT !.error = "none"], "ResponseHeader")
       IN  srv' =
               IF g.raised /= "none" THEN Caught(g)
               ELSE ClientSend([g EXCEPT !.headers = @ + 1],
                               HeaderLine(TextDate, TextNow))
    /\ SrvFrame


\* The writes of HttpServer::HttpClient::Send for non-empty data.
SrvSendData(h, data) ==
    IF h.state = "ResponseChunk" THEN ClientSend(h, ChunkFrame(data))
    ELSE ClientSend(h, data)

\* HttpServer::HttpClient::Send
SrvSend(data) ==
    /\ SrvRunning
    /\ Len(srv.pieces) < MaxResponseChunks
    /\ LET g == SrvFire([srv EXCEPT !.error = "none"], "ResponseChunk")
           c == [g EXCEPT !.pieces = Append(@, data)]
       IN  srv' =
               IF g.raised /= "none" THEN Caught(g)
               ELSE IF data /= <<>> THEN SrvSendData(c, data)
               ELSE c
    /\ SrvFrame

\* HttpServer::HttpClient::End
SrvEnd ==
    /\ SrvRunning
    /\ LET h == [srv EXCEPT !.error = "none"]
           w == IF h.state = "ResponseChunk" THEN ClientSend(h, LastChunk)
                ELSE h
           g == SrvFire(w, "ResponseEnd")
       IN  srv' =
               IF ServerTransition(w.state, "ResponseEnd").kind = "ok"
               THEN Caught([g EXCEPT !.done = TRUE])
               ELSE Caught(g)

    /\ SrvFrame

SrvStep ==
    \/ \E request \in Requests : PeerSends(request)
    \/ \E count \in 0..MaxRead :
           SrvOnDataReceived(IF count = 0 THEN Len(srv.stream) ELSE count)
    \/ SrvOnClientDisconnected
    \/ SrvBegin
    \/ SrvSendHeader
    \/ \E data \in {<<>>, TextHi} : SrvSend(data)
    \/ SrvEnd

(***************************************************************************)
(* SslClient  (net/SslClient.hpp)                                          *)
(***************************************************************************)
\* Bounds of the SslClient model.
MaxSslSends == 2
MaxSslReads == 2

SslStates ==
    {"Idle", "Connecting", "CanDisconnect", "Connected", "Handshaking",
     "Handshaked", "Sending", "Disconnected"}

SslTriggers ==
    {"Connect", "Connected", "Handshake", "Handshaked", "Send", "Timeout",
     "Disconnected"}

\* Mutant: a connected client goes to Handshaked at once.
SslPermitsNoHandshake ==
    { P("Idle", "Connected", "Connected"),
      P("Idle", "Connect", "Connecting"),
      P("CanDisconnect", "Disconnected", "Disconnected"),
      P("CanDisconnect", "Timeout", "Disconnected"),
      P("Connecting", "Connected", "Connected"),
      P("Connected", "Handshake", "Handshaked"),
      P("Handshaking", "Handshaked", "Handshaked"),
      P("Handshaked", "Send", "Sending") }

\* The configuration the constructor builds.
SslPermits ==
    { P("Idle", "Connected", "Connected"),
      P("Idle", "Connect", "Connecting"),
      P("CanDisconnect", "Disconnected", "Disconnected"),
      P("CanDisconnect", "Timeout", "Disconnected"),
      P("Connecting", "Connected", "Connected"),
      P("Connected", "Handshake", "Handshaking"),
      P("Handshaking", "Handshaked", "Handshaked"),
      P("Handshaked", "Send", "Sending") }

SslSuper ==
    [s \in SslStates |->
        IF s \in {"Connecting", "Connected", "Handshaking", "Handshaked"}
        THEN {"CanDisconnect"}
        ELSE IF s = "Sending" THEN {"Handshaked"}
        ELSE {}]

SslTransition(s, t) == Resolve(SslPermits, SslSuper, s, t)

\* The client after construction: its machine's state, _sendBuffer, the bytes
\* the socket has taken, the delegates queued on the event loop, the
\* exception its last call threw and that call; `trace` lists, in order, the
\* states entered and the events emitted; the Send calls and the reads made.
SslStart ==
    ssl = [state |-> "Idle", sendBuffer |-> <<>>, wire |-> <<>>,
           pending |-> {}, error |-> "none", call |-> "none",
           trace |-> <<"Idle">>, sends |-> 0, reads |-> 0]

SslRunning == ssl.error /= "Terminated"

\* _stateMutator(destination)
SslEnter(c, s) == [c EXCEPT !.state = s, !.trace = Append(@, s)]

\* An event reaches its listeners.
SslEmit(c, event) == [c EXCEPT !.trace = Append(@, event)]

RECURSIVE SslFire(_, _)

\* SslClient::Connected_OnEntry
SslConnected_OnEntry(c) == SslFire(c, "Handshake")

\* SslClient::Handshaking_OnEntry
Handshaking_OnEntry(c) == SslFire(c, "Handshaked")

\* SslClient::Handshaked_OnEntry
Handshaked_OnEntry(c) ==
    [SslEmit([c EXCEPT !.sendBuffer = <<>>], "ClientConnected event")
        EXCEPT !.pending = @ \cup {"Connected_Update"}]

\* SslClient::Disconnected_OnEntry
SslDisconnected_OnEntry(c) == SslEmit(c, "ClientDisconnected event")

\* _stateMachine.Fire(trigger).  The entry handlers of Connecting and of
\* Sending, which ask the socket, are part of the actions that reach them.
SslFire(c, t) ==
    LET r == SslTransition(c.state, t)
        d == SslEnter(c, r.dest)
    IN  IF c.error /= "none" THEN c
        ELSE IF r.kind /= "ok" THEN
            [c EXCEPT !.error = "UndefinedTriggerException"]
        ELSE IF r.dest = "Connected" THEN SslConnected_OnEntry(d)
        ELSE IF r.dest = "Handshaking" THEN Handshaking_OnEntry(d)
        ELSE IF r.dest = "Handshaked" THEN Handshaked_OnEntry(d)
        ELSE IF r.dest = "Disconnected" THEN SslDisconnected_OnEntry(d)
        ELSE d

\* SslClient::Connecting_OnEntry, for what Poll(SelectMode_Write) and
\* Poll(SelectMode_Error) answer.
SslConnecting_OnEntry(c, writable, failed) ==
    IF writable THEN SslFire(c, "Connected")
    ELSE IF failed THEN SslFire(c, "Disconnected")
    ELSE [c EXCEPT !.pending = @ \cup {"Connecting_OnEntry"}]

\* A call of the application begins: the last exception is forgotten.
SslCall(name) == [ssl EXCEPT !.error = "none", !.call = name]

\* SslClient::Connect
SslConnect ==
    /\ SslRunning
    /\ \E writable \in BOOLEAN, failed \in BOOLEAN :
           LET c == SslFire(SslCall("Connect"), "Connect")
           IN  ssl' = IF c.error /= "none" THEN c
                      ELSE SslConnecting_OnEntry(c, writable, failed)
    /\ SslFrame

\* SslClient::AssumeConnected
SslAssumeConnected ==
    /\ SslRunning
    /\ ssl.state = "Idle"
    /\ ssl' = SslFire(SslCall("AssumeConnected"), "Connected")
    /\ SslFrame

\* SslClient::Disconnect
SslDisconnect ==
    /\ SslRunning
    /\ ssl' = SslFire(SslCall("Disconnect"), "Disconnected")
    /\ SslFrame

\* The event loop runs the queued Connecting_OnEntry.  An exception leaves
\* Thread::Run: the program ends.
SslRunConnecting ==
    /\ SslRunning
    /\ "Connecting_OnEntry" \in ssl.pending
    /\ \E writable \in BOOLEAN, failed \in BOOLEAN :
           LET c == [SslCall("Connecting_OnEntry") EXCEPT
                        !.pending = @ \ {"Connecting_OnEntry"}]
               d == SslConnecting_OnEntry(c, writable, failed)
           IN  ssl' = IF d.error = "none" THEN d
                      ELSE [d EXCEPT !.error = "Terminated"]
    /\ SslFrame

\* SslClient::Connected_Update, run by the event loop.  `data` is what Receive
\* returns, empty when the peer has closed.
SslConnected_Update(c, readable, data) ==
    IF readable THEN
        IF data = <<>> THEN SslFire(c, "Disconnected")
        ELSE [SslEmit(c, "DataReceived event") EXCEPT
                 !.pending = @ \cup {"Connected_Update"}, !.reads = @ + 1]
    ELSE [c EXCEPT !.pending = @ \cup {"Connected_Update"}]

SslRunUpdate ==
    /\ SslRunning
    /\ "Connected_Update" \in ssl.pending
    /\ \E readable \in BOOLEAN, data \in {<<>>, <<"x">>} :
           /\ data /= <<>> => ssl.reads < MaxSslReads
           /\ LET c == [SslCall("Connected_Update") EXCEPT
                           !.pending = @ \ {"Connected_Update"}]
                  d == SslConnected_Update(c, readable, data)
              IN  ssl' = IF d.error = "none" THEN d
                         ELSE [d EXCEPT !.error = "Terminated"]
    /\ SslFrame

\* SslClient::Sending_OnEntry and the entries of Sending that its
\* Fire(Trigger_Send) makes while bytes remain: the socket takes the queued
\* bytes in any number of pieces, or fails after `count` of them with an
\* exception of Socket::Send.
SslSending_OnEntry(c, count, fails) ==
    IF fails
    THEN [c EXCEPT !.wire = @ \o Substr(c.sendBuffer, count),
                   !.sendBuffer = Erase(@, count),
                   !.error = "SendException"]
    ELSE [c EXCEPT !.wire = @ \o c.sendBuffer, !.sendBuffer = <<>>]

\* SslClient::Send
SslSend(value) ==
    /\ SslRunning
    /\ ssl.sends < MaxSslSends
    /\ \E count \in 0..Len(value), fails \in BOOLEAN :
           LET c == SslFire([SslCall("Send") EXCEPT
                                !.sendBuffer = @ \o value,
                                !.sends = @ + 1],
                            "Send")
           IN  /\ count <= Len(c.sendBuffer)
               /\ ssl' = IF c.error /= "none" THEN c
                          ELSE SslSending_OnEntry(c, count, fails)
    /\ SslFrame

SslStep ==
    \/ SslConnect
    \/ SslAssumeConnected
    \/ SslDisconnect
    \/ SslRunConnecting
    \/ SslRunUpdate
    \/ \E value \in {<<"A", "B">>, <<"C">>} : SslSend(value)

(***************************************************************************)
(* Xml::ProgressiveParser  (xml/Xml.hpp)                                   *)
(***************************************************************************)
\* Bounds of the XML parser model.
MaxDocuments == 2
MaxAppend == 4


\* The document of the parser's example.
TextNested ==
    <<"<", "a", ":", "b", " ", "x", "=", "'", "1", "'", ">", "<", "c", "/",
      ">", "t", "e", "x", "t", "<", "/", "a", ":", "b", ">">>

\* An element with text.
TextSimple ==
    <<"<", "a", ">", "h", "i", "<", "/", "a", ">">>

\* An element holding an element with text.
TextInner ==
    <<"<", "a", ">", "<", "b", " ", "k", "=", "'", "v", "'", ">", "x", "<",
      "/", "b", ">", "<", "/", "a", ">">>

\* Two elements, one after the other.
TextPair ==
    <<"<", "a", "/", ">", "<", "b", "/", ">">>

\* An end tag with no element open.
TextStray == <<"<", "/", "a", ">">>

\* An end tag that does not name the open element.
TextCrossed ==
    <<"<", "a", ">", "<", "b", ">", "<", "/", "a", ">", "<", "/", "b", ">">>

\* An element with an attribute in double quotes and an escaped text.

TextEscaped ==
    <<"<", "r", " ", "y", "=", "\"", "2", "\"", ">", "&", "l", "t", ";", "<",
      "/", "r", ">">>

EntityApos ==
    <<"&", "a", "p", "o", "s", ";">>

EntityQuot ==
    <<"&", "q", "u", "o", "t", ";">>

EntityLt ==
    <<"&", "l", "t", ";">>

EntityGt ==
    <<"&", "g", "t", ";">>

EntityAmp ==
    <<"&", "a", "m", "p", ";">>

\* std::string::find_first_of and find_first_not_of, from the start.
FindFirstOf(str, chars) ==
    LET hits == {i \in 0..(Len(str) - 1) : str[i + 1] \in chars}
    IN  IF hits = {} THEN NPos ELSE Min(hits)

FindFirstNotOf(str, chars) ==
    LET hits == {i \in 0..(Len(str) - 1) : str[i + 1] \notin chars}
    IN  IF hits = {} THEN NPos ELSE Min(hits)

\* String::Split: the items std::getline reads up to each delimiter; an
\* empty rest after the last delimiter is no item.
RECURSIVE Split(_, _)
Split(value, delimiter) ==
    LET end == Find(value, <<delimiter>>, 0)
    IN  IF value = <<>> THEN <<>>
        ELSE IF end = NPos THEN <<value>>
        ELSE <<SubstrAt(value, 0, end)>>
             \o Split(Erase(value, end + 1), delimiter)

\* String::Replace, searching on from position i.
RECURSIVE ReplaceFrom(_, _, _, _)
ReplaceFrom(value, pre, post, i) ==
    LET at == Find(value, pre, i)
    IN  IF at = NPos THEN value
        ELSE ReplaceFrom(SubstrAt(value, 0, at) \o post
                         \o Erase(value, at + Len(pre)),
                         pre, post, at + Len(post))

Replace(value, pre, post) == ReplaceFrom(value, pre, post, 0)

\* XmlElement::Unescape
Unescape(value) ==
    Replace(Replace(Replace(Replace(Replace(value, EntityApos, <<"'">>),
                                    EntityQuot, <<"\"">>),
                            EntityLt, <<"<">>),
                    EntityGt, <<">">>),
            EntityAmp, <<"&">>)

XmlStates ==
    { "OpenElement", "IgnoreDeclaration", "CloseElement",
      "OptionalSlashOrQuestionAfterOpenElement", "StartElement",
      "EndElement", "OptionalAttribute", "AttributeName",
      "OptionalSlashAfterAttributes", "ImmediateEndElement",
      "OptionalOpenElement", "ElementData", "AttributeAssignment",
      "AttributeValueDetermineQuotes", "StartAttributeValueSingleQuotes",
      "StartAttributeValueDoubleQuotes", "EndAttributeValueSingleQuotes",
      "EndAttributeValueDoubleQuotes", "OptionalWhitespaceBeforeAttribute" }

\* The configuration the constructor builds: the permits between the states
\* of elements and text,
XmlElementPermits ==
    { P("OpenElement", "OpenElementReceived",
        "OptionalSlashOrQuestionAfterOpenElement"),
      P("OptionalSlashOrQuestionAfterOpenElement", "OptionalQuestionPresent",
        "IgnoreDeclaration"),
      P("OptionalSlashOrQuestionAfterOpenElement", "OptionalSlashPresent",
        "EndElement"),
      P("OptionalSlashOrQuestionAfterOpenElement", "OptionalSlashNotPresent",
        "StartElement"),
      P("IgnoreDeclaration", "DeclarationReceived", "OpenElement"),
      P("EndElement", "ElementNameReceived", "OpenElement"),
      P("StartElement", "ElementNameReceived",
        "OptionalWhitespaceBeforeAttribute"),
      P("OptionalSlashAfterAttributes", "OptionalSlashPresent",
        "ImmediateEndElement"),
      P("OptionalSlashAfterAttributes", "OptionalSlashNotPresent",
        "CloseElement"),
      P("ImmediateEndElement", "ImmediateEndElementReceived", "OpenElement"),
      P("CloseElement", "CloseElementReceived", "OptionalOpenElement"),
      P("OptionalOpenElement", "OptionalOpenElementPresent", "OpenElement"),
      P("OptionalOpenElement", "OptionalOpenElementNotPresent",
        "ElementData"),
      P("ElementData", "ElementDataReceived", "OpenElement") }

\* the permits between the states of attributes,
XmlAttributePermits ==
    { P("OptionalWhitespaceBeforeAttribute", "WhitespaceReceived",
        "OptionalAttribute"),
      P("OptionalAttribute", "OptionalAttributePresent", "AttributeName"),
      P("OptionalAttribute", "OptionalAttributeNotPresent",
        "OptionalSlashAfterAttributes"),
      P("AttributeName", "AttributeNameReceived", "AttributeAssignment"),
      P("AttributeAssignment", "AttributeAssignmentReceived",
        "AttributeValueDetermineQuotes"),
      P("AttributeValueDetermineQuotes", "SingleQuotesReceived",
        "StartAttributeValueSingleQuotes"),
      P("AttributeValueDetermineQuotes", "DoubleQuotesReceived",
        "StartAttributeValueDoubleQuotes"),
      P("StartAttributeValueSingleQuotes", "AttributeValueReceived",
        "EndAttributeValueSingleQuotes"),
      P("StartAttributeValueDoubleQuotes", "AttributeValueReceived",
        "EndAttributeValueDoubleQuotes"),
      P("EndAttributeValueSingleQuotes", "SingleQuotesReceived",
        "OptionalWhitespaceBeforeAttribute"),
      P("EndAttributeValueDoubleQuotes", "DoubleQuotesReceived",
        "OptionalWhitespaceBeforeAttribute") }

\* and Trigger_Append, which every state permits to itself.
XmlAppendPermits == {P(s, "Append", s) : s \in XmlStates}

XmlPermits ==
    XmlElementPermits \cup XmlAttributePermits \cup XmlAppendPermits

XmlSuper == [s \in XmlStates |-> {}]

XmlTransition(s, t) == Resolve(XmlPermits, XmlSuper, s, t)

\* The documents given to a parser.
Documents ==
    { [name |-> "Nested", text |-> TextNested],
      [name |-> "Simple", text |-> TextSimple],
      [name |-> "Escaped", text |-> TextEscaped],
      [name |-> "Inner", text |-> TextInner],
      [name |-> "Pair", text |-> TextPair],
      [name |-> "Crossed", text |-> TextCrossed],
      [name |-> "Stray", text |-> TextStray] }

\* A parser after construction, given `text` to parse: the machine's state,
\* _buffer, _elementNamespaceAndName, the tokens it has emitted, the
\* exception that left Append, the text not yet appended, and who listens
\* to its events.
NewParser(text) ==
    [state |-> "OpenElement", buffer |-> <<>>, elementNamespaceAndName |-> <<>>,
     tokens |-> <<>>, raised |-> "none", rest |-> text, listener |-> "none"]

(***************************************************************************)
(* XmlElement and XmlAttribute  (xml/Xml.hpp).  An element with the        *)
(* elements below it is a table of elements, each naming the element that  *)
(* holds it; element 1 is the element itself.                              *)
(***************************************************************************)
\* The characters of codes 32 to 126 in the order of their codes; the
\* character of code 96 is written "grave" and the one of code 0 "NUL".
Printable ==
    <<" ", "!", "\"", "#", "$", "%", "&", "'", "(", ")", "*", "+", ",", "-",
      ".", "/", "0", "1", "2", "3", "4", "5", "6", "7", "8", "9", ":", ";",
      "<", "=", ">", "?", "@", "A", "B", "C", "D", "E", "F", "G", "H", "I",
      "J", "K", "L", "M", "N", "O", "P", "Q", "R", "S", "T", "U", "V", "W",
      "X", "Y", "Z", "[", "\\", "]", "^", "_", "grave", "a", "b", "c", "d",
      "e", "f", "g", "h", "i", "j", "k", "l", "m", "n", "o", "p", "q", "r",
      "s", "t", "u", "v", "w", "x", "y", "z", "{", "|", "}", "~">>

CharCode(c) ==
    CASE c = "NUL" -> 0
      [] c = "\t" -> 9
      [] c = "\n" -> 10
      [] c = "\r" -> 13
      [] OTHER -> 31 + (CHOOSE i \in DOMAIN Printable : Printable[i] = c)

\* std::less<std::string>, the order of the two collections' keys.
StringLess(a, b) ==
    \E i \in 1..Len(b) :
        /\ i <= Len(a) + 1
        /\ SubSeq(a, 1, i - 1) = SubSeq(b, 1, i - 1)
        /\ (i = Len(a) + 1 \/ CharCode(a[i]) < CharCode(b[i]))

\* XmlElement::Key
Key(ns, name) == ToLowerCase(ns \o <<":">> \o name)

\* XmlAttribute(ns, name), under the key it is stored at.
XmlAttribute(ns, name) ==
    [key |-> Key(ns, name), namespace |-> ns, name |-> name, value |-> <<>>]

\* XmlElement(ns, name), held by the element `parent` (0 for none).
XmlElement(parent, ns, name) ==
    [parent |-> parent, namespace |-> ns, name |-> name, value |-> <<>>,
     attributes |-> {}]

\* XmlElement::Add on element `at`: the new element is the last of the table.
Add(tree, at, ns, name) == Append(tree, XmlElement(at, ns, name))

\* XmlElement::Value(value) on element `at`.
SetValue(tree, at, value) == [tree EXCEPT ![at].value = value]

\* XmlElement::Attribute(ns, name).Value(value) on element `at`: the
\* attribute stored at the key, inserted when there is none.
SetAttribute(tree, at, ns, name, value) ==
    LET found == {a \in tree[at].attributes : a.key = Key(ns, name)}
    IN  [tree EXCEPT ![at].attributes =
            IF found = {}
            THEN @ \cup {[XmlAttribute(ns, name) EXCEPT !.value = value]}
            ELSE (@ \ found) \cup {[a EXCEPT !.value = value] : a \in found}]

\* The iteration of an AttributeCollection, a std::map: by key.
RECURSIVE AttributesInOrder(_)
AttributesInOrder(attributes) ==
    IF attributes = {} THEN <<>>
    ELSE LET first == CHOOSE a \in attributes :
                          \A b \in attributes \ {a} : StringLess(a.key, b.key)
         IN  <<first>> \o AttributesInOrder(attributes \ {first})

\* The order of two elements in an ElementCollection, a std::multimap: by
\* key, and elements of one key in the order they were inserted.
KeyBefore(ka, kb, a, b) == StringLess(ka, kb) \/ (ka = kb /\ a < b)

ElementBefore(tree, a, b) ==
    KeyBefore(Key(tree[a].namespace, tree[a].name),
              Key(tree[b].namespace, tree[b].name), a, b)

RECURSIVE ElementsInOrder(_, _)
ElementsInOrder(tree, ids) ==
    IF ids = {} THEN <<>>
    ELSE LET first == CHOOSE a \in ids :
                          \A b \in ids \ {a} : ElementBefore(tree, a, b)
         IN  <<first>> \o ElementsInOrder(tree, ids \ {first})

\* XmlElement::Elements() of element `at`, as the iteration visits them.
Elements(tree, at) ==
    ElementsInOrder(tree, {i \in DOMAIN tree : tree[i].parent = at})

\* XmlElement::Element(ns, name) const of element `at`: the first element
\* stored at the key, 0 for the NullElement.
FirstOf(at, found) == IF at = 0 \/ found = <<>> THEN 0 ELSE found[1]

Element(tree, at, ns, name) ==
    FirstOf(at, SelectSeq(Elements(tree, at),
                          LAMBDA i : Key(tree[i].namespace, tree[i].name)
                                     = Key(ns, name)))

\* XmlElement::Value() const of element `at`; the NullElement's is empty.
ElementValue(tree, at) == IF at = 0 THEN <<>> ELSE tree[at].value

\* XmlElement::Exists
Exists(tree, at) == at /= 0 /\ tree[at].name /= <<>>


\* XmlElement::Attribute(ns, name) const .Value() of element `at`; the
\* NullAttribute and the NullElement's attributes have the empty value.
AttributeValue(tree, at, ns, name) ==
    LET found == IF at = 0 THEN {}
                 ELSE {a \in tree[at].attributes : a.key = Key(ns, name)}
    IN  IF found = {} THEN <<>> ELSE (CHOOSE a \in found : TRUE).value

\* XmlElement::Escape
Escape(value) ==
    Replace(Replace(Replace(Replace(Replace(value, <<"&">>, EntityAmp),
                                    <<"'">>, EntityApos),
                            <<"\"">>, EntityQuot),
                    <<"<">>, EntityLt),
            <<">">>, EntityGt)

\* A name with its namespace, as the serializers write it.
QualifiedName(ns, name) ==
    IF ns = <<>> THEN name ELSE ns \o <<":">> \o name

RECURSIVE AttributesToString(_)
AttributesToString(attributes) ==
    IF attributes = <<>> THEN <<>>
    ELSE <<" ">> \o QualifiedName(attributes[1].namespace, attributes[1].name)
         \o <<"=", "'">> \o attributes[1].value \o <<"'">>
         \o AttributesToString(Tail(attributes))

\* XmlElement::ToStartElementString
ToStartElementString(tree, at) ==
    <<"<">> \o QualifiedName(tree[at].namespace, tree[at].name)
    \o AttributesToString(AttributesInOrder(tree[at].attributes)) \o <<">">>

\* XmlElement::ToEndElementString
ToEndElementString(tree, at) ==
    <<"<", "/">> \o QualifiedName(tree[at].namespace, tree[at].name)
    \o <<">">>

RECURSIVE ElementToString(_, _)
RECURSIVE ElementsToString(_, _)

ElementsToString(tree, ids) ==
    IF ids = <<>> THEN <<>>
    ELSE ElementToString(tree, ids[1]) \o ElementsToString(tree, Tail(ids))

\* XmlElement::ToString
ElementToString(tree, at) ==
    ToStartElementString(tree, at)
    \o ElementsToString(tree, Elements(tree, at))
    \o Escape(tree[at].value)
    \o ToEndElementString(tree, at)

\* XmlElement::Element(ns, name), not const, of element `at`: the first
\* element stored at the key, added when there is none.
FoundOrAdded(tree, at, ns, name, found) ==
    IF found = 0
    THEN [tree |-> Add(tree, at, ns, name), at |-> Len(tree) + 1]
    ELSE [tree |-> tree, at |-> found]

ElementOrAdd(tree, at, ns, name) ==
    FoundOrAdded(tree, at, ns, name, Element(tree, at, ns, name))

\* Bound of the element a program builds.
MaxCalls == 4

\* The names and values the program uses.
TextRoot == <<"r", "o", "o", "t">>

TextAttr1 == <<"a", "t", "t", "r", "1">>

TextId == <<"i", "d">>

TextTest == <<"t", "e", "s", "t">>

TextItem == <<"i", "t", "e", "m">>

TextTwelve == <<"1", "2">>

TextDef == <<"d", "e", "f">>

TextGhi == <<"g", "h", "i">>

AttributeNames == {TextAttr1, TextId}

ElementNames == {TextTest, TextItem}

ElementValues == {TextAbc, TextDef, TextGhi}

\* XmlElement xml("root"): the element, the keys of its attributes in the
\* order the program first named them, and the number of calls made.
DomStart ==
    dom = [tree |-> <<XmlElement(0, <<>>, TextRoot)>>, named |-> <<>>,
           calls |-> 0]

\* xml.Attribute(name).Value(value)
DomAttribute(name, value) ==
    /\ dom.calls < MaxCalls
    /\ dom' = [tree |-> SetAttribute(dom.tree, 1, <<>>, name, value),
               named |-> IF \E i \in DOMAIN dom.named :
                                dom.named[i] = Key(<<>>, name)
                         THEN dom.named
                         ELSE Append(dom.named, Key(<<>>, name)),
               calls |-> dom.calls + 1]
    /\ DomFrame

\* xml.Add(name).Value(value)
DomAdd(name, value) ==
    /\ dom.calls < MaxCalls
    /\ dom' = [dom EXCEPT
                  !.tree = SetValue(Add(@, 1, <<>>, name), Len(@) + 1, value),
                  !.calls = @ + 1]
    /\ DomFrame

\* xml.Element(name).Value(value)
DomElement(name, value) ==
    LET found == ElementOrAdd(dom.tree, 1, <<>>, name)
    IN  /\ dom.calls < MaxCalls
        /\ dom' = [dom EXCEPT !.tree = SetValue(found.tree, found.at, value),
                              !.calls = @ + 1]
        /\ DomFrame

DomStep ==
    \/ \E name \in AttributeNames : DomAttribute(name, TextTwelve)
    \/ \E name \in ElementNames, value \in ElementValues : DomAdd(name, value)
    \/ \E name \in ElementNames, value \in ElementValues :
           DomElement(name, value)

(***************************************************************************)
(* Base64  (encoding/Base64.hpp)                                           *)
(***************************************************************************)
Base64Table ==
    <<"A", "B", "C", "D", "E", "F", "G", "H", "I", "J", "K", "L", "M", "N",
      "O", "P", "Q", "R", "S", "T", "U", "V", "W", "X", "Y", "Z", "a", "b",
      "c", "d", "e", "f", "g", "h", "i", "j", "k", "l", "m", "n", "o", "p",
      "q", "r", "s", "t", "u", "v", "w", "x", "y", "z", "0", "1", "2", "3",
      "4", "5", "6", "7", "8", "9", "+", "/">>

\* The loop of Base64::Encode from the 0-based position i: four characters
\* for each three octets, an octet past the end counting as 0.
RECURSIVE Base64Groups(_, _)
Base64Groups(value, i) ==
    LET octet(k) == IF k < Len(value) THEN CharCode(value[k + 1]) ELSE 0
        abc == octet(i) * 65536 + octet(i + 1) * 256 + octet(i + 2)
    IN  IF i >= Len(value) THEN <<>>
        ELSE <<Base64Table[((abc \div 262144) % 64) + 1],
               Base64Table[((abc \div 4096) % 64) + 1],
               Base64Table[((abc \div 64) % 64) + 1],
               Base64Table[(abc % 64) + 1]>>
             \o Base64Groups(value, i + 3)

\* Base64::Encode: the groups, then modulus[length % 3] characters '='.
Base64Encode(value) ==
    Base64Groups(value, 0)
    \o [i \in 1..(<<0, 2, 1>>[(Len(value) % 3) + 1]) |-> "="]

(***************************************************************************)
(* JabberClient  (jabber/JabberClient.hpp): the client's own fields.  The  *)
(* SslClient it derives from is its `link`: Send is accepted only once the *)
(* link is Handshaked.                                                     *)
(***************************************************************************)
\* Bounds of the XMPP client model.
MaxKeepAlives == 1
MaxJabberRead == 1
MaxJabberChunk == 32

JabberStates ==
    { "Idle", "Connecting", "CanDisconnect", "Connected", "Disconnected",
      "CreatingPreLoginStream", "CreatedPreLoginStream", "LoggingIn",
      "LoggedIn", "LoginInvalidAccount", "LoginInvalidPassword",
      "CreatingAccount", "CreatingPostLoginStream",
      "CreatedPostLoginStream", "BindingResource", "BoundResource",
      "CreatingSession", "InSession", "CreatedSession" }

\* The Permit calls of the constructor.
JabberPermits ==
    { P("Idle", "Connect", "Connecting"),
      P("Connecting", "Connected", "Connected"),
      P("CanDisconnect", "Disconnected", "Disconnected"),
      P("Connected", "CreateStream", "CreatingPreLoginStream"),
      P("CreatingPreLoginStream", "CreatedStream", "CreatedPreLoginStream"),
      P("CreatedPreLoginStream", "Login", "LoggingIn"),
      P("LoggingIn", "InvalidLogin", "CreatedPreLoginStream"),
      P("LoggingIn", "LoggedIn", "LoggedIn"),
      P("LoggingIn", "LoginInvalidAccount", "LoginInvalidAccount"),
      P("LoggingIn", "LoginInvalidPassword", "LoginInvalidPassword"),
      P("LoginInvalidAccount", "InvalidLogin", "CreatedPreLoginStream"),
      P("LoginInvalidAccount", "CreateAccount", "CreatingAccount"),
      P("LoginInvalidPassword", "InvalidLogin", "CreatedPreLoginStream"),
      P("LoginInvalidPassword", "Login", "LoggingIn"),
      P("CreatingAccount", "CreatedAccount", "LoggedIn"),
      P("LoggedIn", "CreateStream", "CreatingPostLoginStream"),
      P("CreatingPostLoginStream", "CreatedStream", "CreatedPostLoginStream"),
      P("CreatedPostLoginStream", "BindResource", "BindingResource"),
      P("BindingResource", "BoundResource", "BoundResource"),
      P("BoundResource", "CreateSession", "CreatingSession"),
      P("CreatingSession", "CreatedSession", "CreatedSession") }

\* The SubstateOf calls of the constructor.
JabberSuper ==
    [s \in JabberStates |->
        IF s = "CreatedSession" THEN {"InSession"}
        ELSE IF s \in {"Idle", "Connecting", "CanDisconnect", "Disconnected"}
        THEN {}
        ELSE {"CanDisconnect"}]

\* The texts the client writes and compares with.
TextStream == <<"s", "t", "r", "e", "a", "m">>

TextTo == <<"t", "o">>

TextXmlns == <<"x", "m", "l", "n", "s">>

TextVersion == <<"v", "e", "r", "s", "i", "o", "n">>

TextJabberClient == <<"j", "a", "b", "b", "e", "r", ":", "c", "l", "i", "e",
                      "n", "t">>

TextStreams == <<"h", "t", "t", "p", ":", "/", "/", "e", "t", "h", "e", "r",
                 "x", ".", "j", "a", "b", "b", "e", "r", ".", "o", "r", "g",
                 "/", "s", "t", "r", "e", "a", "m", "s">>

TextOneZero == <<"1", ".", "0">>

TextAuth == <<"a", "u", "t", "h">>

TextMechanism == <<"m", "e", "c", "h", "a", "n", "i", "s", "m">>

TextPlain == <<"P", "L", "A", "I", "N">>

TextSasl == <<"u", "r", "n", ":", "i", "e", "t", "f", ":", "p", "a", "r",
              "a", "m", "s", ":", "x", "m", "l", ":", "n", "s", ":", "x",
              "m", "p", "p", "-", "s", "a", "s", "l">>

TextIq == <<"i", "q">>

TextType == <<"t", "y", "p", "e">>

TextSet == <<"s", "e", "t">>

TextQuery == <<"q", "u", "e", "r", "y">>

TextRegister == <<"j", "a", "b", "b", "e", "r", ":", "i", "q", ":", "r", "e",
                  "g", "i", "s", "t", "e", "r">>

TextUsername == <<"u", "s", "e", "r", "n", "a", "m", "e">>

TextPassword == <<"p", "a", "s", "s", "w", "o", "r", "d">>

TextBind == <<"b", "i", "n", "d">>

TextXmppBind == <<"u", "r", "n", ":", "i", "e", "t", "f", ":", "p", "a", "r",
                  "a", "m", "s", ":", "x", "m", "l", ":", "n", "s", ":", "x",
                  "m", "p", "p", "-", "b", "i", "n", "d">>

TextSession == <<"s", "e", "s", "s", "i", "o", "n">>

TextXmppSession == <<"u", "r", "n", ":", "i", "e", "t", "f", ":", "p", "a",
                     "r", "a", "m", "s", ":", "x", "m", "l", ":", "n", "s",
                     ":", "x", "m", "p", "p", "-", "s", "e", "s", "s", "i",
                     "o", "n">>

TextPresence == <<"p", "r", "e", "s", "e", "n", "c", "e">>

TextFrom == <<"f", "r", "o", "m">>

TextRoster == <<"j", "a", "b", "b", "e", "r", ":", "i", "q", ":", "r", "o",
                "s", "t", "e", "r">>

TextJid == <<"j", "i", "d">>

TextSubscription == <<"s", "u", "b", "s", "c", "r", "i", "p", "t", "i", "o",
                      "n">>

TextSubscribe == <<"s", "u", "b", "s", "c", "r", "i", "b", "e">>

TextSubscribed == <<"s", "u", "b", "s", "c", "r", "i", "b", "e", "d">>

TextSuccess == <<"s", "u", "c", "c", "e", "s", "s">>

TextFailure == <<"f", "a", "i", "l", "u", "r", "e">>

TextBadProtocol == <<"b", "a", "d", "-", "p", "r", "o", "t", "o", "c", "o",
                     "l">>

TextNotAuthorized == <<"n", "o", "t", "-", "a", "u", "t", "h", "o", "r", "i",
                       "z", "e", "d">>

TextShow == <<"s", "h", "o", "w">>

TextMessage == <<"m", "e", "s", "s", "a", "g", "e">>

TextBody == <<"b", "o", "d", "y">>

\* The account and the server's address the program gives.
Username == <<"u">>

Password == <<"p">>

ServerAddress == <<"h">>

\* JabberClient(username, password): the machine in State_Idle, no JID;
\* with the link's state, RandomId's counter, the keepalive callbacks
\* queued, the exception that left a call, and what the client has done.
NewJabberClient ==
    [state |-> "Idle", jid |-> <<>>, link |-> "Idle", id |-> 0,
     timeouts |-> 0, raised |-> "none", log |-> <<>>]

Did(kind, name, text) == [kind |-> kind, name |-> name, text |-> text]

\* JabberClient::PlainAuthentication
PlainAuthentication(username, password) ==
    Base64Encode(<<"NUL">> \o username \o <<"NUL">> \o password)

\* JabberClient::Send: SslClient::Send fires Trigger_Send, which only
\* State_Handshaked permits.
JabberSend(c, value) ==
    IF c.raised /= "none" THEN c
    ELSE IF c.link /= "Handshaked"
    THEN [c EXCEPT !.raised = "UndefinedTriggerException"]
    ELSE [c EXCEPT !.log = Append(@, Did("send", "", value))]

\* xml.Attribute(name).Value(value)
WithAttribute(tree, at, name, value) ==
    SetAttribute(tree, at, <<>>, name, value)

\* .Attribute(name).Value(value) on the element an Element call returned.
AttributeOf(found, name, value) ==
    WithAttribute(found.tree, found.at, name, value)

\* .Value(value) on the element an Element call returned.
ValueOf(found, value) == SetValue(found.tree, found.at, value)

\* xml.Element(outer).Element(inner)
ElementWithin(tree, outer, inner) ==
    LET found == ElementOrAdd(tree, 1, <<>>, outer)
    IN  ElementOrAdd(found.tree, found.at, <<>>, inner)

RECURSIVE JabberFire(_, _)

\* JabberClient::CreateStream
CreateStream(c) ==
    LET element == WithAttribute(
                   SetAttribute(
                       WithAttribute(
                           WithAttribute(
                               <<XmlElement(0, TextStream, TextStream)>>,
                               1, TextTo, ServerAddress),
                           1, TextXmlns, TextJabberClient),
                       1, TextXmlns, TextStream, TextStreams),
                   1, TextVersion, TextOneZero)
    IN  JabberSend(JabberFire(c, "CreateStream"),
                   ToStartElementString(element, 1))

\* JabberClient::Login
Login(c) ==
    LET element == SetValue(
                   WithAttribute(
                       WithAttribute(<<XmlElement(0, <<>>, TextAuth)>>,
                                     1, TextXmlns, TextSasl),
                       1, TextMechanism, TextPlain),
                   1, PlainAuthentication(Username, Password))
    IN  JabberSend(JabberFire(c, "Login"), ElementToString(element, 1))

\* An iq of type set with the next RandomId, addressed when `to` is given.
IqSet(c, to) ==
    LET iq == WithAttribute(<<XmlElement(0, <<>>, TextIq)>>, 1, TextType,
                            TextSet)
        addressed == IF to = <<>> THEN iq
                     ELSE WithAttribute(iq, 1, TextTo, to)
    IN  WithAttribute(addressed, 1, TextId, FormatDec(c.id))

\* xml.Element(name).Attribute("xmlns").Value(value) on an iq.
WithChild(tree, name, xmlns) ==
    AttributeOf(ElementOrAdd(tree, 1, <<>>, name), TextXmlns, xmlns)

\* JabberClient::CreateAccount
CreateAccount(c) ==
    LET query == WithChild(IqSet(c, <<>>), TextQuery, TextRegister)
        named == ValueOf(ElementWithin(query, TextQuery, TextUsername),
                         Username)
        element == ValueOf(ElementWithin(named, TextQuery, TextPassword),
                           Password)
        fired == JabberFire(c, "CreateAccount")
    IN  JabberSend([fired EXCEPT !.id = @ + 1], ElementToString(element, 1))

\* JabberClient::BindResource
BindResource(c) ==
    LET element == WithChild(IqSet(c, ServerAddress), TextBind, TextXmppBind)
        fired == JabberFire(c, "BindResource")
    IN  JabberSend([fired EXCEPT !.id = @ + 1], ElementToString(element, 1))

\* JabberClient::CreateSession
CreateSession(c) ==
    LET element == WithChild(IqSet(c, ServerAddress), TextSession,
                         TextXmppSession)
        fired == JabberFire(c, "CreateSession")
    IN  JabberSend([fired EXCEPT !.id = @ + 1], ElementToString(element, 1))

\* JabberClient::Presence()
Presence(c) ==
    JabberSend(c, ElementToString(<<XmlElement(0, <<>>, TextPresence)>>, 1))

\* JabberClient::Presence(to, type)
PresenceTo(c, to, type) ==
    LET element == WithAttribute(
                   WithAttribute(
                       WithAttribute(<<XmlElement(0, <<>>, TextPresence)>>,
                                     1, TextFrom, c.jid),
                       1, TextTo, to),
                   1, TextType, type)
    IN  JabberSend(c, ElementToString(element, 1))

\* JabberClient::AcceptFriendRequest(jid, id)
AcceptFriendRequest(c, jid, id) ==
    LET iq == WithAttribute(
                  WithAttribute(<<XmlElement(0, <<>>, TextIq)>>, 1, TextType,
                                TextSet),
                  1, TextId, id)
        query == WithChild(iq, TextQuery, TextRoster)
        item == AttributeOf(ElementWithin(query, TextQuery, TextItem),
                            TextJid, jid)
        element == AttributeOf(ElementWithin(item, TextQuery, TextItem),
                               TextSubscription, TextTo)
    IN  JabberSend(c, ElementToString(element, 1))

\* JabberClient::KeepAlive: a space is sent and the next call is queued.
KeepAlive(c) ==
    LET sent == JabberSend(c, <<" ">>)
    IN  IF sent.raised /= "none" THEN sent
        ELSE [sent EXCEPT !.timeouts = @ + 1,
                          !.log = Append(@, Did("timeout", "KeepAlive",
                                                <<>>))]

\* State_CreatedSession_Entered
State_CreatedSession_Entered(c) ==
    KeepAlive(Presence([c EXCEPT !.log = Append(@, Did("event",
                                                       "ClientConnected",
                                                       <<>>))]))

\* The OnEntry handlers of the constructor; State_LoginInvalidPassword_Entered
\* only logs.
JabberEntry(s, c) ==
    CASE s = "Connected" -> CreateStream(c)
      [] s = "CreatedPreLoginStream" -> Login(c)
      [] s = "LoginInvalidAccount" -> CreateAccount(c)
      [] s = "LoggedIn" -> CreateStream(c)
      [] s = "CreatedPostLoginStream" -> BindResource(c)
      [] s = "BoundResource" -> CreateSession(c)
      [] s = "CreatedSession" -> State_CreatedSession_Entered(c)
      [] OTHER -> c

\* _stateMachine.Fire(trigger) of the client.
JabberFire(c, t) ==
    LET r == Resolve(JabberPermits, JabberSuper, c.state, t)
    IN  IF c.raised /= "none" THEN c
        ELSE IF r.kind = "multi"
        THEN [c EXCEPT !.raised = "MultipleTriggerException"]
        ELSE IF r.kind = "none"
        THEN [c EXCEPT !.raised = "UndefinedTriggerException"]
        ELSE JabberEntry(r.dest,
                         [c EXCEPT !.state = r.dest,
                                   !.log = Append(@, Did("state", r.dest,
                                                         <<>>))])

\* What the conditions of OnDocumentParsed read of the document: the
\* element `top` of `tree`.
Stanza(tree, top) ==
    LET Attr(at, n) == AttributeValue(tree, at, <<>>, n)
        Child(at, n) == Element(tree, at, <<>>, n)
        ItemAttr(item, n) == AttributeValue(tree, item, <<>>, n)
        Item(query) == Element(tree, query, <<>>, TextItem)
    IN  [name |-> tree[top].name,
         xmlns |-> Attr(top, TextXmlns),
         type |-> Attr(top, TextType),
         from |-> Attr(top, TextFrom),
         id |-> Attr(top, TextId),
         badProtocol |-> Exists(tree, Child(top, TextBadProtocol)),
         notAuthorized |-> Exists(tree, Child(top, TextNotAuthorized)),
         query |-> Attr(Child(top, TextQuery), TextXmlns),
         bind |-> Attr(Child(top, TextBind), TextXmlns),
         jid |-> ElementValue(tree, Child(Child(top, TextBind), TextJid)),
         session |-> Attr(Child(top, TextSession), TextXmlns),
         subscription |-> ItemAttr(Item(Child(top, TextQuery)),
                                   TextSubscription),
         item |-> ItemAttr(Item(Child(top, TextQuery)), TextJid),
         show |-> ElementValue(tree, Child(top, TextShow))]

\* The trigger that the conditions of OnDocumentParsed which depend on the
\* machine's state fire, in their order; "none" when none of them holds.
TriggerOf(state, s) ==
    IF state = "LoggingIn" /\ s.name = TextSuccess /\ s.xmlns = TextSasl
    THEN "LoggedIn"
    ELSE IF /\ state = "LoggingIn" /\ s.name = TextFailure
            /\ s.xmlns = TextSasl /\ s.badProtocol
    THEN "LoginInvalidAccount"
    ELSE IF /\ state = "LoggingIn" /\ s.name = TextFailure
            /\ s.xmlns = TextSasl /\ s.notAuthorized
    THEN "LoginInvalidPassword"
    ELSE IF /\ state = "CreatingAccount" /\ s.name = TextIq
            /\ s.query = TextRegister
    THEN "CreatedAccount"
    ELSE IF /\ state = "BindingResource" /\ s.name = TextIq
            /\ s.bind = TextXmppBind
    THEN "BoundResource"
    ELSE IF /\ state = "CreatingSession" /\ s.name = TextIq
            /\ s.session = TextXmppSession
    THEN "CreatedSession"
    ELSE "none"

\* The branches of OnDocumentParsed; _jid is assigned before
\* Trigger_BoundResource is fired.
StanzaReceived(c, s, trigger) ==
    IF c.raised /= "none" THEN c
    ELSE IF trigger /= "none"
    THEN JabberFire([c EXCEPT !.jid = IF trigger = "BoundResource"
                                      THEN s.jid ELSE @],
                    trigger)
    ELSE IF /\ s.name = TextIq /\ s.type = TextSet
            /\ s.subscription = TextFrom
    THEN AcceptFriendRequest(c, s.item, s.id)
    ELSE IF s.name = TextPresence /\ s.type = TextSubscribe
    THEN PresenceTo(c, s.from, TextSubscribed)
    ELSE IF s.name = TextPresence /\ s.show /= <<>>
    THEN [c EXCEPT !.log = Append(@, Did("event", "PresenceReceived",
                                         s.from))]
    ELSE IF s.name = TextMessage
    THEN [c EXCEPT !.log = Append(@, Did("event", "MessageReceived",
                                         s.from))]
    ELSE c

StanzaOf(c, s) == StanzaReceived(c, s, TriggerOf(c.state, s))

\* JabberClient::OnDocumentParsed, for the element `top` of `tree`.
OnDocumentParsed(c, document) ==
    StanzaOf(c, Stanza(document.tree, document.top))

(***************************************************************************)
(* Xml::DocumentParser  (xml/Xml.hpp): a progressive parser whose events   *)
(* build an element tree.                                                  *)
(***************************************************************************)
\* DocumentParser(): _root alone, on the stack; no attribute name yet; and
\* the documents given to DocumentParsed so far.
NewDocumentParser(text) ==
    [listener |-> "DocumentParser", root |-> <<XmlElement(0, <<>>, <<>>)>>,
     stack |-> <<1>>, attributeNamespace |-> <<>>, attributeName |-> <<>>,
     parsed |-> <<>>] @@ NewParser(text)

\* _stack.top()
StackTop(h) == h.stack[Len(h.stack)]

\* DocumentParser::OnStartElementReceived
DocumentParser_OnStartElementReceived(h, args) ==
    [h EXCEPT !.root = Add(@, StackTop(h), args.namespace, args.name),
              !.stack = Append(@, Len(h.root) + 1)]

\* DocumentParser::OnAttributeNameReceived
DocumentParser_OnAttributeNameReceived(h, args) ==
    [h EXCEPT !.attributeNamespace = args.namespace,
              !.attributeName = args.name]

\* DocumentParser::OnAttributeValueReceived
DocumentParser_OnAttributeValueReceived(h, args) ==
    [h EXCEPT !.root = SetAttribute(@, StackTop(h), h.attributeNamespace,
                                    h.attributeName, args.name)]

\* DocumentParser::OnDataReceived
DocumentParser_OnDataReceived(h, args) ==
    [h EXCEPT !.root = SetValue(@, StackTop(h), args.name)]

\* _documentParsed is raised for the element on top; _root = XmlElement().
\* The XMPP client's document parser holds the client, whose
\* OnDocumentParsed handles the event.
Heard(g, client) ==
    IF client.raised /= "none"
    THEN [g EXCEPT !.client = client, !.raised = client.raised]
    ELSE [g EXCEPT !.client = client, !.root = <<XmlElement(0, <<>>, <<>>)>>]

Announced(h, document) ==
    IF "client" \in DOMAIN h
    THEN Heard([h EXCEPT !.parsed = Append(@, document)],
               OnDocumentParsed(h.client, document))
    ELSE [h EXCEPT !.parsed = Append(@, document),
                   !.root = <<XmlElement(0, <<>>, <<>>)>>]

DocumentParsed(h, top) == Announced(h, [tree |-> h.root, top |-> top])

\* OnEndElementReceived without its comparison of the names.
DocumentParser_OnEndElementUncompared(h, args) ==
    LET top == StackTop(h)
        popped == [h EXCEPT !.stack = SubSeq(@, 1, Len(@) - 1)]
    IN  IF popped.stack = <<>>
        THEN [popped EXCEPT !.raised = "undefined"]
        ELSE IF StackTop(popped) = 1 THEN DocumentParsed(popped, top)
        ELSE popped

\* DocumentParser::OnEndElementReceived; top() of a stack left empty is
\* undefined.

DocumentParser_OnEndElementReceived(h, args) ==
    LET top == StackTop(h)
        popped == [h EXCEPT !.stack = SubSeq(@, 1, Len(@) - 1)]
    IN  IF h.root[top].namespace /= args.namespace
           \/ h.root[top].name /= args.name
        THEN [popped EXCEPT !.raised = "InvalidFormatException"]
        ELSE IF popped.stack = <<>>
        THEN [popped EXCEPT !.raised = "undefined"]
        ELSE IF StackTop(popped) = 1 THEN DocumentParsed(popped, top)
        ELSE popped

\* The handlers the constructor adds to the progressive parser's events.
DocumentParser_On(h, args) ==
    CASE args.kind = "StartElement"
            -> DocumentParser_OnStartElementReceived(h, args)
      [] args.kind = "AttributeName"
            -> DocumentParser_OnAttributeNameReceived(h, args)
      [] args.kind = "AttributeValue"
            -> DocumentParser_OnAttributeValueReceived(h, args)
      [] args.kind = "Data" -> DocumentParser_OnDataReceived(h, args)
      [] args.kind = "EndElement"
            -> DocumentParser_OnEndElementReceived(h, args)

\* Before any document: a parser with nothing to parse, and the number of
\* documents parsed.
XmlStart ==
    xml = [parser |-> NewDocumentParser(<<>>), doc |-> "none", documents |-> 0]

Token(kind, namespace, name) ==
    [kind |-> kind, namespace |-> namespace, name |-> name]

RECURSIVE XmlFire(_, _)

\* DocumentParser::Append on the XMPP client's document parser.
DocumentAppend(d, value) ==
    XmlFire([d EXCEPT !.buffer = @ \o value, !.fed = @ \o value], "Append")

\* JabberClient::OnStartElementReceived, on the client's progressive parser.
StreamCreated(h, fed, client) ==
    [h EXCEPT !.document = [fed EXCEPT !.client = client],
              !.raised = client.raised]

StreamFed(h, fed) ==
    IF fed.raised /= "none"
    THEN [h EXCEPT !.document = fed, !.raised = fed.raised]
    ELSE StreamCreated(h, fed, JabberFire(fed.client, "CreatedStream"))

OnStartElementReceived(h, args) ==
    IF args.namespace /= TextStream \/ args.name /= TextStream THEN h
    ELSE StreamFed(h, DocumentAppend(
                          h.document,
                          SubstrAt(h.buffer, Find(h.buffer, <<">">>, 0) + 1,
                                   NPos)))

\* An event of the progressive parser is raised: its handlers run.
XmlEmit(h, token) ==
    LET g == [h EXCEPT !.tokens = Append(@, token)]
    IN  IF h.raised /= "none" THEN h
        ELSE IF h.listener = "DocumentParser" THEN DocumentParser_On(g, token)
        ELSE IF h.listener = "JabberClient" /\ token.kind = "StartElement"
        THEN OnStartElementReceived(g, token)
        ELSE g

\* The event of a handler that has split a name at ':': one item is a name
\* without namespace, two are namespace and name, otherwise no event.
EmitNamed(h, kind, namespaceAndName) ==
    IF Len(namespaceAndName) \in {1, 2}
    THEN XmlEmit(h, IF Len(namespaceAndName) = 1
                    THEN Token(kind, <<>>, namespaceAndName[1])
                    ELSE Token(kind, namespaceAndName[1],
                               namespaceAndName[2]))
    ELSE h

WhitespaceChars == {" ", "\t", "\r", "\n"}

\* State_OpenElement_Entered
State_OpenElement_Entered(h) ==
    IF h.buffer /= <<>> /\ h.buffer[1] = "<"
    THEN XmlFire([h EXCEPT !.buffer = Erase(@, 1)], "OpenElementReceived")
    ELSE h

\* State_OptionalSlashOrQuestionAfterOpenElement_Entered
State_OptionalSlashOrQuestionAfterOpenElement_Entered(h) ==
    IF h.buffer = <<>> THEN h
    ELSE IF h.buffer[1] = "/" THEN XmlFire(h, "OptionalSlashPresent")
    ELSE IF h.buffer[1] = "?" THEN XmlFire(h, "OptionalQuestionPresent")
    ELSE XmlFire(h, "OptionalSlashNotPresent")

\* State_IgnoreDeclaration_Entered
State_IgnoreDeclaration_Entered(h) ==
    LET end == Find(h.buffer, <<"?", ">">>, 0)
    IN  IF end = NPos THEN h
        ELSE XmlFire([h EXCEPT !.buffer = Erase(@, end + 2)],
                     "DeclarationReceived")

\* State_EndElement_Entered
State_EndElement_Entered(h) ==
    LET end == Find(h.buffer, <<">">>, 0)
        namespaceAndName == Split(SubstrAt(h.buffer, 1, end - 1), ":")
    IN  IF end = NPos THEN h
        ELSE XmlFire(EmitNamed([h EXCEPT !.buffer = Erase(@, end + 1)],
                               "EndElement", namespaceAndName),
                     "ElementNameReceived")

\* State_StartElement_Entered
State_StartElement_Entered(h) ==
    LET end == FindFirstOf(h.buffer, {"/", ">"} \cup WhitespaceChars)
        namespaceAndName == Split(SubstrAt(h.buffer, 0, end), ":")
    IN  IF end = NPos THEN h
        ELSE XmlFire(EmitNamed([h EXCEPT
                                   !.elementNamespaceAndName =
                                       namespaceAndName,
                                   !.buffer = Erase(@, end)],
                               "StartElement", namespaceAndName),
                     "ElementNameReceived")

\* State_OptionalWhitespaceBeforeAttribute_Entered
State_OptionalWhitespaceBeforeAttribute_Entered(h) ==
    LET end == FindFirstNotOf(h.buffer, {"?"} \cup WhitespaceChars)
    IN  IF end = NPos THEN h
        ELSE XmlFire([h EXCEPT !.buffer = Erase(@, end)],
                     "WhitespaceReceived")

\* State_OptionalAttribute_Entered
State_OptionalAttribute_Entered(h) ==
    IF h.buffer = <<>> THEN h
    ELSE IF h.buffer[1] \in {"/", ">"}
    THEN XmlFire(h, "OptionalAttributeNotPresent")
    ELSE XmlFire(h, "OptionalAttributePresent")

\* State_AttributeName_Entered
State_AttributeName_Entered(h) ==
    LET end == Find(h.buffer, <<"=">>, 0)
        namespaceAndName == Split(SubstrAt(h.buffer, 0, end), ":")
    IN  IF end = NPos THEN h
        ELSE XmlFire(EmitNamed([h EXCEPT !.buffer = Erase(@, end)],
                               "AttributeName", namespaceAndName),
                     "AttributeNameReceived")

\* State_AttributeAssignment_Entered
State_AttributeAssignment_Entered(h) ==
    IF h.buffer /= <<>> /\ h.buffer[1] = "="
    THEN XmlFire([h EXCEPT !.buffer = Erase(@, 1)],
                 "AttributeAssignmentReceived")
    ELSE h

\* State_AttributeValueDetermineQuotes_Entered
State_AttributeValueDetermineQuotes_Entered(h) ==
    IF h.buffer = <<>> THEN h
    ELSE IF h.buffer[1] = "\""
    THEN XmlFire([h EXCEPT !.buffer = Erase(@, 1)], "DoubleQuotesReceived")
    ELSE IF h.buffer[1] = "'"
    THEN XmlFire([h EXCEPT !.buffer = Erase(@, 1)], "SingleQuotesReceived")
    ELSE h

\* State_StartAttributeValueSingleQuotes_Entered and
\* State_StartAttributeValueDoubleQuotes_Entered, for their quote.
StartAttributeValue_Entered(h, quote) ==
    LET end == Find(h.buffer, <<quote>>, 0)
    IN  IF end = NPos THEN h
        ELSE XmlFire(XmlEmit([h EXCEPT !.buffer = Erase(@, end)],
                             Token("AttributeValue", <<>>,
                                   SubstrAt(h.buffer, 0, end))),
                     "AttributeValueReceived")

\* State_EndAttributeValueSingleQuotes_Entered and
\* State_EndAttributeValueDoubleQuotes_Entered, for their quote and trigger.
EndAttributeValue_Entered(h, quote, trigger) ==
    IF h.buffer /= <<>> /\ h.buffer[1] = quote
    THEN XmlFire([h EXCEPT !.buffer = Erase(@, 1)], trigger)
    ELSE h

\* State_OptionalSlashAfterAttributes_Entered
State_OptionalSlashAfterAttributes_Entered(h) ==
    IF h.buffer = <<>> THEN h
    ELSE IF h.buffer[1] = "/" THEN XmlFire(h, "OptionalSlashPresent")
    ELSE XmlFire(h, "OptionalSlashNotPresent")

\* State_ImmediateEndElement_Entered
State_ImmediateEndElement_Entered(h) ==
    IF Len(h.buffer) >= 2 /\ SubstrAt(h.buffer, 0, 2) = <<"/", ">">>
    THEN XmlFire(EmitNamed([h EXCEPT !.buffer = Erase(@, 2)], "EndElement",
                           h.elementNamespaceAndName),
                 "ImmediateEndElementReceived")
    ELSE h

\* State_CloseElement_Entered
State_CloseElement_Entered(h) ==
    IF h.buffer /= <<>> /\ h.buffer[1] = ">"
    THEN XmlFire([h EXCEPT !.buffer = Erase(@, 1)], "CloseElementReceived")
    ELSE h

\* State_OptionalOpenElement_Entered
State_OptionalOpenElement_Entered(h) ==
    IF h.buffer = <<>> THEN h
    ELSE IF h.buffer[1] = "<" THEN XmlFire(h, "OptionalOpenElementPresent")
    ELSE XmlFire(h, "OptionalOpenElementNotPresent")

\* State_ElementData_Entered: the buffer up to the first '<', or all of it,
\* is the data.
State_ElementData_Entered(h) ==
    LET end == Find(h.buffer, <<"<">>, 0)
        g == XmlEmit([h EXCEPT !.buffer = IF end = NPos THEN <<>>
                                          ELSE Erase(@, end)],
                     Token("Data", <<>>,
                           Unescape(SubstrAt(h.buffer, 0, end))))
    IN  IF end = NPos THEN g ELSE XmlFire(g, "ElementDataReceived")

XmlEntry(s, h) ==
    CASE s = "OpenElement" -> State_OpenElement_Entered(h)
      [] s = "OptionalSlashOrQuestionAfterOpenElement"
            -> State_OptionalSlashOrQuestionAfterOpenElement_Entered(h)
      [] s = "IgnoreDeclaration" -> State_IgnoreDeclaration_Entered(h)
      [] s = "EndElement" -> State_EndElement_Entered(h)
      [] s = "StartElement" -> State_StartElement_Entered(h)
      [] s = "OptionalWhitespaceBeforeAttribute"
            -> State_OptionalWhitespaceBeforeAttribute_Entered(h)
      [] s = "OptionalAttribute" -> State_OptionalAttribute_Entered(h)
      [] s = "AttributeName" -> State_AttributeName_Entered(h)
      [] s = "AttributeAssignment" -> State_AttributeAssignment_Entered(h)
      [] s = "AttributeValueDetermineQuotes"
            -> State_AttributeValueDetermineQuotes_Entered(h)
      [] s = "StartAttributeValueSingleQuotes"
            -> StartAttributeValue_Entered(h, "'")
      [] s = "StartAttributeValueDoubleQuotes"
            -> StartAttributeValue_Entered(h, "\"")
      [] s = "EndAttributeValueSingleQuotes"
            -> EndAttributeValue_Entered(h, "'", "SingleQuotesReceived")
      [] s = "EndAttributeValueDoubleQuotes"
            -> EndAttributeValue_Entered(h, "\"", "DoubleQuotesReceived")
      [] s = "OptionalSlashAfterAttributes"
            -> State_OptionalSlashAfterAttributes_Entered(h)
      [] s = "ImmediateEndElement" -> State_ImmediateEndElement_Entered(h)
      [] s = "CloseElement" -> State_CloseElement_Entered(h)
      [] s = "OptionalOpenElement" -> State_OptionalOpenElement_Entered(h)
      [] s = "ElementData" -> State_ElementData_Entered(h)

\* _stateMachine.Fire(trigger) of the parser.
XmlFire(h, t) ==
    LET r == XmlTransition(h.state, t)
    IN  IF h.raised /= "none" THEN h
        ELSE IF r.kind = "multi" THEN
            [h EXCEPT !.raised = "MultipleTriggerException"]
        ELSE IF r.kind = "none" THEN
            [h EXCEPT !.raised = "UndefinedTriggerException"]
        ELSE XmlEntry(r.dest, [h EXCEPT !.state = r.dest])

\* ProgressiveParser::Append
ParserAppend(h, value) ==
    XmlFire([h EXCEPT !.buffer = @ \o value], "Append")

\* A parser is constructed to parse a document.
XmlNew(document) ==
    /\ xml.parser.rest = <<>>
    /\ xml.documents < MaxDocuments
    /\ xml' = [parser |-> NewDocumentParser(document.text),
               doc |-> document.name,
               documents |-> xml.documents + 1]
    /\ XmlFrame

\* The next `count` characters of the document are appended.
XmlAppend(count) ==
    /\ xml.parser.raised = "none"
    /\ count \in 1..Len(xml.parser.rest)
    /\ xml' = [xml EXCEPT
                  !.parser = ParserAppend([@ EXCEPT !.rest = Erase(@, count)],
                                          Substr(xml.parser.rest, count))]
    /\ XmlFrame

XmlStep ==
    \/ \E document \in Documents : XmlNew(document)
    \/ \E count \in 0..MaxAppend :
           XmlAppend(IF count = 0 THEN Len(xml.parser.rest) ELSE count)

(***************************************************************************)
(* JabberClient: the client with its two parsers and the server's bytes.   *)
(***************************************************************************)
\* What the server writes.
TextStreamHeader ==
    <<"<", "?", "x", "m", "l", "?", ">", "<", "s", "t", "r", "e", "a", "m",
      ":", "s", "t", "r", "e", "a", "m", " ", "i", "d", "=", "'", "s", "1",
      "'", ">">>

TextFeatures == <<"<", "s", "t", "r", "e", "a", "m", ":", "f", "e", "a", "t",
                  "u", "r", "e", "s", ">", "<", "b", "i", "n", "d", "/", ">",
                  "<", "/", "s", "t", "r", "e", "a", "m", ":", "f", "e", "a",
                  "t", "u", "r", "e", "s", ">">>

TextSuccessReply == <<"<", "s", "u", "c", "c", "e", "s", "s", " ", "x", "m",
                      "l", "n", "s", "=", "'", "u", "r", "n", ":", "i", "e",
                      "t", "f", ":", "p", "a", "r", "a", "m", "s", ":", "x",
                      "m", "l", ":", "n", "s", ":", "x", "m", "p", "p", "-",
                      "s", "a", "s", "l", "'", "/", ">">>

TextBadProtocolReply ==
    <<"<", "f", "a", "i", "l", "u", "r", "e", " ", "x", "m", "l", "n", "s",
      "=", "'", "u", "r", "n", ":", "i", "e", "t", "f", ":", "p", "a", "r",
      "a", "m", "s", ":", "x", "m", "l", ":", "n", "s", ":", "x", "m", "p",
      "p", "-", "s", "a", "s", "l", "'", ">", "<", "b", "a", "d", "-", "p",
      "r", "o", "t", "o", "c", "o", "l", "/", ">", "<", "/", "f", "a", "i",
      "l", "u", "r", "e", ">">>

TextNotAuthorizedReply ==
    <<"<", "f", "a", "i", "l", "u", "r", "e", " ", "x", "m", "l", "n", "s",
      "=", "'", "u", "r", "n", ":", "i", "e", "t", "f", ":", "p", "a", "r",
      "a", "m", "s", ":", "x", "m", "l", ":", "n", "s", ":", "x", "m", "p",
      "p", "-", "s", "a", "s", "l", "'", ">", "<", "n", "o", "t", "-", "a",
      "u", "t", "h", "o", "r", "i", "z", "e", "d", "/", ">", "<", "/", "f",
      "a", "i", "l", "u", "r", "e", ">">>

TextRegisteredReply ==
    <<"<", "i", "q", " ", "t", "y", "p", "e", "=", "'", "r", "e", "s", "u",
      "l", "t", "'", ">", "<", "q", "u", "e", "r", "y", " ", "x", "m", "l",
      "n", "s", "=", "'", "j", "a", "b", "b", "e", "r", ":", "i", "q", ":",
      "r", "e", "g", "i", "s", "t", "e", "r", "'", "/", ">", "<", "/", "i",
      "q", ">">>

TextFullJid == <<"u", "@", "h", "/", "r">>

TextBoundReply ==
    <<"<", "i", "q", " ", "t", "y", "p", "e", "=", "'", "r", "e", "s", "u",
      "l", "t", "'", ">", "<", "b", "i", "n", "d", " ", "x", "m", "l", "n",
      "s", "=", "'", "u", "r", "n", ":", "i", "e", "t", "f", ":", "p", "a",
      "r", "a", "m", "s", ":", "x", "m", "l", ":", "n", "s", ":", "x", "m",
      "p", "p", "-", "b", "i", "n", "d", "'", ">", "<", "j", "i", "d", ">",
      "u", "@", "h", "/", "r", "<", "/", "j", "i", "d", ">", "<", "/", "b",
      "i", "n", "d", ">", "<", "/", "i", "q", ">">>

TextSessionReply ==
    <<"<", "i", "q", " ", "t", "y", "p", "e", "=", "'", "r", "e", "s", "u",
      "l", "t", "'", ">", "<", "s", "e", "s", "s", "i", "o", "n", " ", "x",
      "m", "l", "n", "s", "=", "'", "u", "r", "n", ":", "i", "e", "t", "f",
      ":", "p", "a", "r", "a", "m", "s", ":", "x", "m", "l", ":", "n", "s",
      ":", "x", "m", "p", "p", "-", "s", "e", "s", "s", "i", "o", "n", "'",
      "/", ">", "<", "/", "i", "q", ">">>

\* What the server writes once the client has sent `after` times; `tag`
\* tells the stream:stream start tag, declaration included, from a stanza.
Reply(after, tag, text) == [after |-> after, tag |-> tag, text |-> text]

\* The ways a server answers: it accepts the login, it refuses an unknown
\* account and registers it, or it refuses the password.
Servers ==
    [Accepts |-> <<Reply(1, TRUE, TextStreamHeader),
                   Reply(1, FALSE, TextFeatures),
                   Reply(2, FALSE, TextSuccessReply),
                   Reply(3, TRUE, TextStreamHeader),
                   Reply(4, FALSE, TextBoundReply),
                   Reply(5, FALSE, TextSessionReply)>>,
     Registers |-> <<Reply(1, TRUE, TextStreamHeader),
                     Reply(2, FALSE, TextBadProtocolReply),
                     Reply(3, FALSE, TextRegisteredReply),
                     Reply(4, TRUE, TextStreamHeader),
                     Reply(5, FALSE, TextBoundReply),
                     Reply(6, FALSE, TextSessionReply)>>,
     Refuses |-> <<Reply(1, TRUE, TextStreamHeader),
                   Reply(2, FALSE, TextNotAuthorizedReply)>>]

\* The client's progressive parser, which here holds the client's document
\* parser, which holds the client's own fields and the bytes appended to it.
NewJabberParsers ==
    [listener |-> "JabberClient",
     document |-> [client |-> NewJabberClient, fed |-> <<>>]
                  @@ NewDocumentParser(<<>>)] @@ NewParser(<<>>)

\* A client constructed; no server yet, nothing on the wire, none of the
\* server's bytes received, no keepalive callback run.
JabberStart ==
    jab = [parser |-> NewJabberParsers, server |-> "none", replies |-> 0,
           wire |-> <<>>, tags |-> <<>>, stanzas |-> <<>>, keepalives |-> 0]

Client == jab.parser.document.client

\* The exception that left a call of the client.
Raised(parser) ==
    IF parser.raised /= "none" THEN parser.raised
    ELSE IF parser.document.raised /= "none" THEN parser.document.raised
    ELSE parser.document.client.raised

JabberRunning == Raised(jab.parser) = "none"

Sends(c) == Len(SelectSeq(c.log, LAMBDA did : did.kind = "send"))

\* JabberClient::Connect, to a server that answers in one of the ways.
JabberConnect(server) ==
    /\ JabberRunning
    /\ jab.server = "none"
    /\ jab' = [jab EXCEPT
                  !.server = server,
                  !.parser.document.client =
                      [JabberFire(@, "Connect") EXCEPT !.link = "Connecting"]]
    /\ JabFrame

\* JabberClient::OnClientConnected, when the link has been established.
JabberOnClientConnected ==
    /\ JabberRunning
    /\ Client.link = "Connecting"
    /\ jab' = [jab EXCEPT
                  !.parser.document.client =
                      JabberFire([@ EXCEPT !.link = "Handshaked"],
                                 "Connected")]
    /\ JabFrame

\* JabberClient::OnClientDisconnected, when the link has gone.
JabberOnClientDisconnected ==
    /\ JabberRunning
    /\ Client.link \in {"Connecting", "Handshaked"}
    /\ jab' = [jab EXCEPT
                  !.parser.document.client =
                      JabberFire([@ EXCEPT !.link = "Disconnected"],
                                 "Disconnected")]
    /\ JabFrame

\* The server writes its next reply.
ServerReplies ==
    /\ JabberRunning
    /\ Client.link = "Handshaked"
    /\ jab.server /= "none"
    /\ jab.replies < Len(Servers[jab.server])
    /\ LET reply == Servers[jab.server][jab.replies + 1]
       IN  /\ Sends(Client) >= reply.after
           /\ jab' = [jab EXCEPT
                         !.replies = @ + 1,
                         !.wire = @ \o reply.text,
                         !.tags = @ \o [i \in DOMAIN reply.text |->
                                           reply.tag]]
    /\ JabFrame

\* JabberClient::OnDataReceived on the parsers.
OnDataReceivedBy(parser, data) ==
    IF parser.document.client.state
           \in {"CreatingPreLoginStream", "CreatingPostLoginStream"}
    THEN ParserAppend(parser, data)
    ELSE [parser EXCEPT !.document = DocumentAppend(@, data)]

\* The link reads `count` bytes, a few or as many as a read takes, and emits
\* DataReceived with them.
JabberOnDataReceived(count) ==
    /\ JabberRunning
    /\ Client.link = "Handshaked"
    /\ count \in 1..Len(jab.wire)
    /\ jab' = [jab EXCEPT
                  !.parser = OnDataReceivedBy(@, Substr(jab.wire, count)),
                  !.wire = Erase(@, count),
                  !.tags = Erase(@, count),
                  !.stanzas = @ \o SelectSeq(
                      [i \in 1..count |->
                          IF jab.tags[i] THEN "" ELSE jab.wire[i]],
                      LAMBDA char : char /= "")]
    /\ JabFrame

\* A queued KeepAlive callback runs.
JabberKeepAlive ==
    /\ JabberRunning
    /\ Client.timeouts > 0
    /\ jab.keepalives < MaxKeepAlives
    /\ jab' = [jab EXCEPT
                  !.keepalives = @ + 1,
                  !.parser.document.client =
                      KeepAlive([@ EXCEPT !.timeouts = @ - 1])]
    /\ JabFrame

JabStep ==
    \/ \E server \in {"Accepts", "Registers", "Refuses"} :
           JabberConnect(server)
    \/ JabberOnClientConnected
    \/ JabberOnClientDisconnected
    \/ ServerReplies
    \/ \E count \in 0..MaxJabberRead :
           JabberOnDataReceived(
               IF count = 0 THEN Min({Len(jab.wire), MaxJabberChunk})
               ELSE count)
    \/ JabberKeepAlive

(***************************************************************************)
(* Rest::Router  (rest/Rest.hpp): an HttpServer that routes each request   *)
(* to the handler configured for its path.                                 *)
(***************************************************************************)
\* Bounds of the router model.
MaxRoutes == 2
MaxRestRequests == 1

\* The codes of the router's responses.
StatusBadRequest == 400
StatusNotFound == 404

TextBadRequest == <<"B", "a", "d", " ", "R", "e", "q", "u", "e", "s", "t">>

TextNotFound == <<"N", "o", "t", " ", "F", "o", "u", "n", "d">>

TextServer == <<"S", "e", "r", "v", "e", "r">>

TextNitrus == <<"n", "i", "t", "r", "u", "s">>

TextContentType == <<"C", "o", "n", "t", "e", "n", "t", "-", "T", "y", "p",
                     "e">>

TextPlainText == <<"t", "e", "x", "t", "/", "p", "l", "a", "i", "n">>

\* What StackTrace::ToExceptionString gives for the exception caught.
TextException == <<"e", "r", "r", "o", "r">>

TextEntityPattern == <<"/", "e", "n", "t", "i", "t", "i", "e", "s", "/", "{",
                       "e", "n", "t", "i", "t", "y", "I", "d", "}">>

TextEntityId == <<"e", "n", "t", "i", "t", "y", "I", "d">>

TextHundred == <<"1", "0", "0">>

\* ::toupper
ToUpper(c) ==
    IF \E i \in DOMAIN LowerCase : LowerCase[i] = c
    THEN UpperCase[CHOOSE i \in DOMAIN LowerCase : LowerCase[i] = c]
    ELSE c

\* String::ToUpperCase
ToUpperCase(str) == [i \in DOMAIN str |-> ToUpper(str[i])]

\* matches[key] = value on a MatchCollection, a std::map.
SetMatch(matches, key, value) ==
    [k \in DOMAIN matches \cup {key} |->
        IF k = key THEN value ELSE matches[k]]

NoMatches == [k \in {} |-> <<>>]

\* ExpressionComparer::GetReplaceable: whether value is {key}.
GetReplaceable(value) ==
    value /= <<>> /\ value[1] = "{" /\ value[Len(value)] = "}"

ReplaceableKey(value) == SubstrAt(value, 1, Len(value) - 2)

\* The loop of PathsAreEqual from item i on.
RECURSIVE PathsLoop(_, _, _, _)
PathsLoop(expressions, paths, i, matches) ==
    IF i > Len(expressions) THEN [equal |-> TRUE, matches |-> matches]
    ELSE IF expressions[i] = paths[i]
    THEN PathsLoop(expressions, paths, i + 1, matches)
    ELSE IF GetReplaceable(expressions[i])
    THEN PathsLoop(expressions, paths, i + 1,
                   SetMatch(matches, ReplaceableKey(expressions[i]),
                            paths[i]))
    ELSE [equal |-> FALSE, matches |-> matches]

\* Mutant: the numbers of items are not compared.
PathsAreEqualUncounted(expression, path, matches) ==
    LET expressions == Split(expression, "/")
        paths == Split(path, "/")
        count == Min({Len(expressions), Len(paths)})
    IN  PathsLoop(SubSeq(expressions, 1, count), SubSeq(paths, 1, count), 1,
                  matches)

\* ExpressionComparer::PathsAreEqual
PathsAreEqual(expression, path, matches) ==
    LET expressions == Split(expression, "/")
        paths == Split(path, "/")
    IN  IF Len(expressions) /= Len(paths)
        THEN [equal |-> FALSE, matches |-> matches]
        ELSE PathsLoop(expressions, paths, 1, matches)

\* The loop of ParametersAreEqual from item i on.
RECURSIVE ParametersLoop(_, _, _, _)
ParametersLoop(expressions, parameters, i, matches) ==
    IF i > Len(expressions) THEN [equal |-> TRUE, matches |-> matches]
    ELSE LET expressionKeyAndValue == Split(expressions[i], "=")
             parameterKeyAndValue == Split(parameters[i], "=")
             size == Len(expressionKeyAndValue)
             sameKey == expressionKeyAndValue[1] = parameterKeyAndValue[1]
         IN  IF size /= Len(parameterKeyAndValue)
             THEN [equal |-> FALSE, matches |-> matches]
             ELSE IF size = 1 /\ sameKey
             THEN ParametersLoop(expressions, parameters, i + 1, matches)
             ELSE IF /\ size = 2 /\ sameKey
                     /\ GetReplaceable(expressionKeyAndValue[2])
             THEN ParametersLoop(
                      expressions, parameters, i + 1,
                      SetMatch(matches,
                               ReplaceableKey(expressionKeyAndValue[2]),
                               parameterKeyAndValue[2]))
             ELSE IF /\ size = 2 /\ sameKey
                     /\ expressionKeyAndValue[2] = parameterKeyAndValue[2]
             THEN ParametersLoop(expressions, parameters, i + 1, matches)
             ELSE [equal |-> FALSE, matches |-> matches]

\* ExpressionComparer::ParametersAreEqual
ParametersAreEqual(expression, parameter, matches) ==
    LET expressions == Split(expression, "&")
        parameters == Split(parameter, "&")
    IN  IF Len(expressions) /= Len(parameters)
        THEN [equal |-> FALSE, matches |-> matches]
        ELSE ParametersLoop(expressions, parameters, 1, matches)

\* ExpressionComparer::AreEqual
AreEqual(expression, path, matches) ==
    LET expressionAndParameters == Split(expression, "?")
        pathAndParameters == Split(path, "?")
        paths == PathsAreEqual(expressionAndParameters[1],
                               pathAndParameters[1], matches)
    IN  IF /\ Len(expressionAndParameters) = 1
           /\ Len(pathAndParameters) = 1
        THEN paths
        ELSE IF /\ Len(expressionAndParameters) = 2
                /\ Len(pathAndParameters) = 2
        THEN IF paths.equal
             THEN ParametersAreEqual(expressionAndParameters[2],
                                     pathAndParameters[2], paths.matches)
             ELSE paths
        ELSE [equal |-> FALSE, matches |-> matches]

\* HttpServer::HttpClient::Begin, SendHeader, Send and End on a handler h; a
\* call after one that raised is not made.
Written(g, text) == IF g.raised /= "none" THEN g ELSE ClientSend(g, text)

WrittenData(g, data) ==
    IF g.raised /= "none" \/ data = <<>> THEN g ELSE SrvSendData(g, data)

ReplyBegin(h, code, description) ==
    Written(SrvFire(h, "ResponseBegin"),
            TextHttp11 \o <<" ">> \o FormatDec(code) \o <<" ">>
            \o description \o CRLF)

ReplyHeader(h, key, value) ==
    Written(SrvFire(h, "ResponseHeader"), HeaderLine(key, value))

ReplySend(h, data) == WrittenData(SrvFire(h, "ResponseChunk"), data)

ReplyEnd(h) ==
    IF h.raised /= "none" THEN h
    ELSE SrvFire(IF h.state = "ResponseChunk" THEN ClientSend(h, LastChunk)
                 ELSE h,
                 "ResponseEnd")

\* What a bound handler does with the response, and whether it then throws.
Handler(name, calls, throws) ==
    [name |-> name, calls |-> calls, throws |-> throws]

Handlers ==
    { Handler("Answers", <<"Begin", "SendHeader", "Send", "End">>, FALSE),
      Handler("Throws", <<>>, TRUE),
      Handler("BeginsAndThrows", <<"Begin">>, TRUE),
      Handler("SendsAndThrows", <<"Begin", "SendHeader", "Send">>, TRUE),
      Handler("AnswersAndThrows", <<"Begin", "SendHeader", "Send", "End">>,
              TRUE) }

HandlerCall(h, call) ==
    CASE call = "Begin" -> ReplyBegin(h, StatusOk, TextOk)
      [] call = "SendHeader" -> ReplyHeader(h, TextServer, TextNitrus)
      [] call = "Send" -> ReplySend(h, TextHi)
      [] call = "End" -> ReplyEnd(h)

RECURSIVE HandlerCalls(_, _)
HandlerCalls(h, calls) ==
    IF calls = <<>> THEN h
    ELSE HandlerCalls(HandlerCall(h, Head(calls)), Tail(calls))

\* The catch block of Configuration::operator().
BadRequest(h) ==
    ReplyEnd(ReplySend(ReplyHeader(ReplyHeader(ReplyBegin(h, StatusBadRequest,
                                                          TextBadRequest),
                                               TextServer, TextNitrus),
                                   TextContentType, TextPlainText),
                       TextException))

\* Configuration::operator(): a configuration binds the handler to GET.
Handled(called, threw) ==
    [handled |-> TRUE, threw |-> threw,
     client |-> IF threw THEN BadRequest([called EXCEPT !.raised = "none"])
                ELSE called]

Called(called, throws) == Handled(called, called.raised /= "none" \/ throws)

Configuration(h, method, handler) ==
    IF ToUpperCase(method) /= TextGet
    THEN [handled |-> FALSE, threw |-> FALSE, client |-> h]
    ELSE Called(HandlerCalls(h, handler.calls), handler.throws)

\* FileHandler, with no file and no directory under the document root.
FileHandler(h) ==
    ReplyEnd(ReplySend(ReplyHeader(ReplyHeader(ReplyBegin(h, StatusNotFound,
                                                          TextNotFound),
                                               TextServer, TextNitrus),
                                   TextContentType, TextPlainText),
                       <<>>))

\* The expressions of _configurations in the order of the std::map.
RECURSIVE InKeyOrder(_)
InKeyOrder(expressions) ==
    IF expressions = {} THEN <<>>
    ELSE LET first == CHOOSE e \in expressions :
                          \A o \in expressions \ {e} : StringLess(e, o)
         IN  <<first>> \o InKeyOrder(expressions \ {first})

\* One step of the router's loop: the expression is compared with the
\* path; a configuration that matches and handles the request ends the loop.
Compared(expression, path, result, invoked, others) ==
    LET compared == [expression |-> expression, path |-> path,
                     equal |-> result.equal, matches |-> result.matches]
    IN  IF result.equal /\ invoked.handled
        THEN [compared |-> <<compared>>, route |-> expression,
              threw |-> invoked.threw, client |-> invoked.client]
        ELSE [others EXCEPT !.compared = <<compared>> \o @]

\* Router::OnClientHandlerRequestReceived from the i-th configuration on:
\* the comparisons made, whether a configuration's handler threw, and the
\* handler of the client afterwards.
RECURSIVE RouteFrom(_, _, _, _, _, _)
RouteFrom(configurations, order, i, h, method, path) ==
    IF i > Len(order)
    THEN [compared |-> <<>>, route |-> <<>>, threw |-> FALSE,
          client |-> FileHandler(h)]
    ELSE Compared(order[i], path, AreEqual(order[i], path, NoMatches),
                  Configuration(h, method, configurations[order[i]]),
                  RouteFrom(configurations, order, i + 1, h, method, path))

\* The routing expressions and the request paths and methods of the model.
Expressions ==
    { TextEntityPattern,
      <<"/", "e", "n", "t", "i", "t", "i", "e", "s", "/", "{", "e", "n", "t",
        "i", "t", "y", "I", "d", "}", "/">>,
      <<"/", "{", "a", "}", "/", "{", "b", "}", "/", "c">>,
      <<"/", "e", "n", "t", "i", "t", "i", "e", "s", "?", "i", "d", "=", "{",
        "e", "n", "t", "i", "t", "y", "I", "d", "}">> }

RequestPaths ==
    { <<"/", "e", "n", "t", "i", "t", "i", "e", "s", "/", "1", "0", "0">>,
      <<"/", "e", "n", "t", "i", "t", "i", "e", "s", "/", "1", "0", "0", "/",
        "x">>,
      <<"/", "e", "n", "t", "i", "t", "i", "e", "s", "/", "1", "0", "0", "/">>,
      <<"/", "e", "n", "t", "i", "t", "i", "e", "s", "/", "/">>,
      <<"/", "e", "n", "t", "i", "t", "i", "e", "s">>,
      <<"/", "e", "n", "t", "i", "t", "i", "e", "s", "?", "i", "d", "=", "1",
        "0", "0">>,
      TextEntityPattern }

RequestMethods == {TextGet, <<"g", "e", "t">>, TextPost}

\* A router with no configuration, whose HttpServer has accepted a client;
\* with the comparisons and the outcome of the last request.
RestStart ==
    router = [configurations |-> [e \in {} |-> Handler("", <<>>, FALSE)],
            client |-> [state |-> "RequestActionLine", buffer |-> <<>>,
                        contentLength |-> 0, link |-> "connected",
                        log |-> <<>>, started |-> 0, ended |-> 0,
                        out |-> <<>>, raised |-> "none"],
            requests |-> 0, compared |-> <<>>, route |-> <<>>,
            threw |-> FALSE]

RestRunning ==
    router.client.raised = "none" /\ router.client.link = "connected"

\* Router::Configure(expression).Get(handler)
RestConfigure(expression, handler) ==
    /\ RestRunning
    /\ router.requests = 0
    /\ \/ expression \in DOMAIN router.configurations
       \/ Cardinality(DOMAIN router.configurations) < MaxRoutes
    /\ router' = [router EXCEPT
                     !.configurations =
                       [e \in DOMAIN @ \cup {expression} |->
                           IF e = expression THEN handler ELSE @[e]]]
    /\ RestFrame

\* The bytes of a request without content.
RequestBytes(method, path) ==
    method \o <<" ">> \o path \o <<" ">> \o TextHttp11 \o CRLF
    \o HeaderLine(TextHost, TextX) \o CRLF

\* The request a handler has parsed is routed by its method and path.
Route(configurations, parsed) ==
    RouteFrom(configurations, InKeyOrder(DOMAIN configurations), 1, parsed,
              parsed.log[1].key, parsed.log[1].value)

\* The router once a request has been routed.
Served(r, routed) ==
    [r EXCEPT !.requests = @ + 1, !.client = routed.client,
              !.compared = routed.compared, !.route = routed.route,
              !.threw = routed.threw]

\* The client's bytes of a whole request arrive: HttpClient parses them and
\* emits RequestEnded, on which ClientHandler::OnClientRequestEnded hands
\* the request to the router.
RestRequest(method, path) ==
    /\ RestRunning
    /\ router.requests < MaxRestRequests
    /\ router.client.state = "RequestActionLine"
    /\ router' = Served(router,
                        Route(router.configurations,
                              SrvFire([router.client EXCEPT
                                          !.buffer = @ \o RequestBytes(method,
                                                                       path),
                                          !.out = <<>>],
                                      "Continue")))
    /\ RestFrame

RestStep ==
    \/ \E expression \in Expressions, handler \in Handlers :
           RestConfigure(expression, handler)
    \/ \E method \in RequestMethods, path \in RequestPaths :
           RestRequest(method, path)

(***************************************************************************)
(* Event  (Event.hpp): the list of the handlers added to an event.         *)
(***************************************************************************)
\* Bound of the Event model: the handlers the list may hold.
MaxHandlers == 4

\* The event handlers a program adds; equal delegates have equal names.
EventHandlers == {"A", "B", "C"}

\* std::list::unique: of each run of equal consecutive elements only the
\* first stays.
RECURSIVE Unique(_)
Unique(list) ==
    IF Len(list) < 2 THEN list
    ELSE IF list[1] = list[2] THEN Unique(Tail(list))
    ELSE <<list[1]>> \o Unique(Tail(list))

\* Event::operator+=
Added(handlers, that) == Unique(Append(handlers, that))

\* Event::operator-=, std::list::remove: every element equal to that goes.
Removed(handlers, that) == SelectSeq(handlers, LAMBDA h : h /= that)

\* An event with no handlers; with the handlers the last invocation called,
\* in order.
EventStart == evt = [handlers |-> <<>>, invoked |-> <<>>]

\* event += that
EventAdd(that) ==
    /\ Len(evt.handlers) < MaxHandlers
    /\ evt' = [evt EXCEPT !.handlers = Added(@, that)]
    /\ EvtFrame

\* event -= that
EventRemove(that) ==
    /\ evt' = [evt EXCEPT !.handlers = Removed(@, that)]
    /\ EvtFrame

\* Event::operator(): every handler of a copy of the list is invoked.
EventInvoke ==
    /\ evt' = [evt EXCEPT !.invoked = evt.handlers]
    /\ EvtFrame

EvtStep ==
    \/ \E that \in EventHandlers : EventAdd(that)
    \/ \E that \in EventHandlers : EventRemove(that)
    \/ EventInvoke

(***************************************************************************)
(* TimeSpan  (TimeSpan.hpp): a duration is its int64_t _milliseconds.  The *)
(* doubles the class computes with are exact for the durations used here,  *)
(* all of them whole milliseconds well below 2^53.  A duration of less     *)
(* than 2^31 milliseconds is an integer; a longer one is written as its    *)
(* whole days and the milliseconds beyond them.                            *)
(***************************************************************************)
\* The wrap of a value stored in a signed integer of `bits` bits.
Signed(x, bits) == ((x + 2 ^ (bits - 1)) % 2 ^ bits) - 2 ^ (bits - 1)

\* Mutant: division rounds towards minus infinity.
QuotFloor(a, b) == a \div b

\* a / b of two integers, b positive: the quotient is truncated towards zero.
Quot(a, b) == IF a >= 0 THEN a \div b ELSE -((-a) \div b)

\* a % b of two integers, b positive: what the division leaves.
Rem(a, b) == a - b * Quot(a, b)

\* TimeSpan::FromMilliseconds, FromSeconds, FromHours and FromDays of whole
\* numbers, the duration being short.
FromMilliseconds(milliseconds) == milliseconds

FromSeconds(seconds) == FromMilliseconds(seconds * 1000)

FromHours(hours) == FromSeconds(hours * 60 * 60)

FromDays(days) == FromHours(days * 24)

\* The milliseconds of a day.
DayMilliseconds == 24 * 60 * 60 * 1000

\* A long duration that is not negative, of so many milliseconds beyond so
\* many days.
Long(days, milliseconds) ==
    [days |-> days + (milliseconds \div DayMilliseconds),
     ms |-> milliseconds % DayMilliseconds]

\* TimeSpan::FromDays of a whole number of days, the duration being long.
LongFromDays(days) == Long(days, 0)

\* TimeSpan::operator + of two long durations.
LongPlus(a, b) == Long(a.days + b.days, a.ms + b.ms)

\* The long duration of the milliseconds written in decimal digits.
RECURSIVE LongOfDigits(_, _)
LongOfDigits(digits, value) ==
    IF digits = <<>> THEN value
    ELSE LongOfDigits(Tail(digits),
                      Long(value.days * 10, value.ms * 10 + Head(digits)))

\* TimeSpan::FromSeconds of the seconds written in decimal digits.
LongFromSeconds(digits) == LongOfDigits(digits \o <<0, 0, 0>>, Long(0, 0))

\* (uint64_t) TotalDays() of a long duration.
TotalDays(span) == span.days

\* TimeSpan::Milliseconds, Seconds, Minutes, Hours, Days and Weeks.
Milliseconds(ms) == Signed(Rem(ms, 1000), 16)

Seconds(ms) == Signed(Rem(Quot(ms, 1000), 60), 8)

Minutes(ms) == Signed(Rem(Quot(Quot(ms, 1000), 60), 60), 8)

Hours(ms) == Signed(Rem(Quot(Quot(Quot(ms, 1000), 60), 60), 24), 8)

Days(ms) ==
    Signed(Rem(Quot(Quot(Quot(Quot(ms, 1000), 60), 60), 24), 7), 8)

Weeks(ms) == Quot(Quot(Quot(Quot(Quot(ms, 1000), 60), 60), 24), 7)

(***************************************************************************)
(* DateTime  (DateTime.hpp): a date and time is the TimeSpan since         *)
(* January 1 of the year 0.                                                *)
(***************************************************************************)
\* Bounds of the model of dates and durations: the turns of a loop over the
\* years that are taken at a time, and the operations of a program.
YearSlice == 80
MaxTimeOps == 2

\* Mutant: every fourth year is a leap year.
LeapYearEveryFourth(year) == year % 4 = 0

\* DateTime::LeapYear
LeapYear(year) ==
    IF year % 4 = 0
    THEN IF year % 100 = 0 THEN year % 400 = 0 ELSE TRUE
    ELSE FALSE

\* DateTime::YearDaysBeforeOrAfterMonth
YearDaysBeforeOrAfterMonth(month, before) ==
    <<0, 31, 59, 90, 120, 151, 181, 212, 243, 273, 304, 334, 365>>[
        (IF before THEN month - 1 ELSE month) + 1]

\* DateTime::YearDaysInMonth
YearDaysInMonth(month, year) ==
    YearDaysBeforeOrAfterMonth(month, FALSE)
    - YearDaysBeforeOrAfterMonth(month, TRUE)
    + (IF month = 2 /\ LeapYear(year) THEN 1 ELSE 0)

\* DateTime::DaysInYear
DaysInYear(year) == IF LeapYear(year) THEN 366 ELSE 365

\* At most `turns` turns of the loop of FromYearMonthDay over the years
\* before `year`.
RECURSIVE YearsBefore(_, _, _)
YearsBefore(at, year, turns) ==
    IF at.y >= year \/ turns = 0 THEN at
    ELSE YearsBefore([y |-> at.y + 1, days |-> at.days + DaysInYear(at.y)],
                     year, turns - 1)

\* The loop of FromYearMonthDay, taken YearSlice turns at a time.
RECURSIVE DaysBefore(_, _)
DaysBefore(at, year) ==
    IF at.y >= year THEN at.days
    ELSE DaysBefore(YearsBefore(at, year, YearSlice), year)

\* DateTime::FromYearMonthDay
FromYearMonthDay(year, month, day) ==
    LongFromDays(DaysBefore([y |-> 0, days |-> 0], year)
             + YearDaysBeforeOrAfterMonth(month, TRUE)
             + (IF month > 2 /\ LeapYear(year) THEN 1 ELSE 0)
             + day - 1)

\* At most `turns` turns of the first loop of ToYearMonthDay.
RECURSIVE YearsOf(_, _)
YearsOf(at, turns) ==
    IF at.days < DaysInYear(at.year) \/ turns = 0 THEN at
    ELSE YearsOf([year |-> at.year + 1,
                  days |-> at.days - DaysInYear(at.year)],
                 turns - 1)

\* The first loop of ToYearMonthDay, taken YearSlice turns at a time.
RECURSIVE YearOf(_)
YearOf(at) ==
    IF at.days < DaysInYear(at.year) THEN at
    ELSE YearOf(YearsOf(at, YearSlice))

\* The second loop of ToYearMonthDay.
RECURSIVE MonthOf(_, _, _)
MonthOf(year, month, days) ==
    IF YearDaysInMonth(month, year) <= days
    THEN MonthOf(year, month + 1, days - YearDaysInMonth(month, year))
    ELSE <<year, month, days + 1>>

\* The month and the day of a year once the first loop has found it.
MonthAndDay(at) == MonthOf(at.year, 1, at.days)

\* DateTime::ToYearMonthDay: year, month and day.
ToYearMonthDay(timeSpan) ==
    MonthAndDay(YearOf([year |-> 0, days |-> TotalDays(timeSpan)]))

\* DateTime::Epoch
Epoch == FromYearMonthDay(1970, 1, 1)

\* The seconds the unit test adds to the epoch, 67221446400, in decimal
\* digits.
TestSeconds == <<6, 7, 2, 2, 1, 4, 4, 6, 4, 0, 0>>

\* The years, and the durations added to a date, of the model.
Years == {0, 1, 100, 400, 1970, 2000, 4100}

Additions == {LongFromSeconds(TestSeconds), LongFromDays(1)}

\* The durations of the model.
Durations ==
    { FromSeconds(0), FromMilliseconds(1), FromMilliseconds(999),
      FromMilliseconds(3999), FromSeconds(59), FromSeconds(60),
      FromSeconds(3599), FromSeconds(3600), FromHours(12), FromDays(1),
      FromDays(6), FromDays(7) }

\* DateTime() is January 1 of the year 0, and TimeSpan() is zero; with the
\* date a DateTime was made from, the duration added to it since, and the
\* number of operations made.
TimeStart ==
    time = [stamp |-> Long(0, 0), made |-> <<0, 1, 1>>, added |-> Long(0, 0),
            span |-> 0, ops |-> 0]

\* DateTime::FromYearMonthDay(year, month, day): the one DateTime object is
\* made once, from arguments the function does not validate.
DateFromYearMonthDay(year, month, day) ==
    /\ time.ops = 0
    /\ time' = [time EXCEPT !.stamp = FromYearMonthDay(year, month, day),
                            !.made = <<year, month, day>>,
                            !.added = Long(0, 0), !.ops = 1]
    /\ TimeFrame

\* DateTime::operator += (that)
DateAdd(that) ==
    /\ time.ops < MaxTimeOps
    /\ time' = [time EXCEPT !.stamp = LongPlus(@, that),
                            !.added = LongPlus(@, that), !.ops = @ + 1]
    /\ TimeFrame

DateStep ==
    \/ \E year \in Years, month \in 1..12, day \in 1..31 :
           DateFromYearMonthDay(year, month, day)
    \/ \E that \in Additions : DateAdd(that)

\* TimeSpan::FromMilliseconds(milliseconds), of either sign
SpanFrom(milliseconds) ==
    /\ time' = [time EXCEPT !.span = FromMilliseconds(milliseconds),
                            !.ops = 1]
    /\ TimeFrame

\* TimeSpan::operator += (that)
SpanAdd(that) ==
    /\ time.ops < MaxTimeOps
    /\ time' = [time EXCEPT !.span = @ + that, !.ops = @ + 1]
    /\ TimeFrame

\* TimeSpan::operator -= (that)
SpanSubtract(that) ==
    /\ time.ops < MaxTimeOps
    /\ time' = [time EXCEPT !.span = @ - that, !.ops = @ + 1]
    /\ TimeFrame

SpanStep ==
    \/ \E that \in Durations : SpanFrom(that) \/ SpanFrom(-that)
    \/ \E that \in Durations : SpanAdd(that)
    \/ \E that \in Durations : SpanSubtract(that)

(***************************************************************************)
(* The specifications: one per subsystem, the others standing still.       *)

(***************************************************************************)
SmInit == SmStart /\ ThStart /\ TcpStart /\ HttpStart /\ SrvStart /\ SslStart /\ XmlStart /\ DomStart /\ JabberStart /\ RestStart /\ EventStart /\ TimeStart

SmNext == SmStep

SpecSM == SmInit /\ [][SmNext]_vars

ThInit == SmStart /\ ThStart /\ TcpStart /\ HttpStart /\ SrvStart /\ SslStart /\ XmlStart /\ DomStart /\ JabberStart /\ RestStart /\ EventStart /\ TimeStart

ThNext == ThStep

SpecThread == ThInit /\ [][ThNext]_vars

TcpInit == SmStart /\ ThStart /\ TcpStart /\ HttpStart /\ SrvStart /\ SslStart /\ XmlStart /\ DomStart /\ JabberStart /\ RestStart /\ EventStart /\ TimeStart

TcpNext == TcpStep

SpecTcp == TcpInit /\ [][TcpNext]_vars

HttpInit == SmStart /\ ThStart /\ TcpStart /\ HttpStart /\ SrvStart /\ SslStart /\ XmlStart /\ DomStart /\ JabberStart /\ RestStart /\ EventStart /\ TimeStart

HttpNext == HttpStep

SpecHttp == HttpInit /\ [][HttpNext]_vars

SrvInit == SmStart /\ ThStart /\ TcpStart /\ HttpStart /\ SrvStart /\ SslStart /\ XmlStart /\ DomStart /\ JabberStart /\ RestStart /\ EventStart /\ TimeStart

SrvNext == SrvStep

SpecHttpServer == SrvInit /\ [][SrvNext]_vars

SslInit == SmStart /\ ThStart /\ TcpStart /\ HttpStart /\ SrvStart /\ SslStart /\ XmlStart /\ DomStart /\ JabberStart /\ RestStart /\ EventStart /\ TimeStart


SslNext == SslStep

SpecSsl == SslInit /\ [][SslNext]_vars

XmlInit == SmStart /\ ThStart /\ TcpStart /\ HttpStart /\ SrvStart /\ SslStart /\ XmlStart /\ DomStart /\ JabberStart /\ RestStart /\ EventStart /\ TimeStart

XmlNext == XmlStep

SpecXml == XmlInit /\ [][XmlNext]_vars

DomInit == SmStart /\ ThStart /\ TcpStart /\ HttpStart /\ SrvStart /\ SslStart /\ XmlStart /\ DomStart /\ JabberStart /\ RestStart /\ EventStart /\ TimeStart

DomNext == DomStep

SpecDom == DomInit /\ [][DomNext]_vars

JabInit == SmStart /\ ThStart /\ TcpStart /\ HttpStart /\ SrvStart /\ SslStart /\ XmlStart /\ DomStart /\ JabberStart /\ RestStart /\ EventStart /\ TimeStart

JabNext == JabStep

SpecJabber == JabInit /\ [][JabNext]_vars

RestInit == SmStart /\ ThStart /\ TcpStart /\ HttpStart /\ SrvStart /\ SslStart /\ XmlStart /\ DomStart /\ JabberStart /\ RestStart /\ EventStart /\ TimeStart

RestNext == RestStep

SpecRest == RestInit /\ [][RestNext]_vars

EvtInit == SmStart /\ ThStart /\ TcpStart /\ HttpStart /\ SrvStart /\ SslStart /\ XmlStart /\ DomStart /\ JabberStart /\ RestStart /\ EventStart /\ TimeStart

EvtNext == EvtStep

SpecEvent == EvtInit /\ [][EvtNext]_vars

DateInit == SmStart /\ ThStart /\ TcpStart /\ HttpStart /\ SrvStart /\ SslStart /\ XmlStart /\ DomStart /\ JabberStart /\ RestStart /\ EventStart /\ TimeStart

DateNext == DateStep

SpecDateTime == DateInit /\ [][DateNext]_vars

StuckInit == SmStart /\ ThStart /\ TcpStart /\ HttpStart /\ SrvStart /\ SslStart /\ XmlStart /\ DomStart /\ JabberStart /\ RestStart /\ EventStart /\ TimeStart

StuckNext == StuckStep

SpecTcpStuck == StuckInit /\ [][StuckNext]_vars

SpanInit == SmStart /\ ThStart /\ TcpStart /\ HttpStart /\ SrvStart /\ SslStart /\ XmlStart /\ DomStart /\ JabberStart /\ RestStart /\ EventStart /\ TimeStart

SpanNext == SpanStep

SpecTimeSpan == SpanInit /\ [][SpanNext]_vars


(***************************************************************************)
(* Properties of the event loop.                                           *)
(***************************************************************************)
\* The ids of the delegates scheduled so far.
Scheduled == 1..(thNextId - 1)

\* The positions of the log at which delegate id was invoked.
Invocations(id) ==
    {i \in 1..Len(thLog) : thLog[i].id = id /\ thLog[i].ev = "begin"}

Queued == {e.id : e \in thQueue}

\* C6: whenever Run dequeues a callback, no callback left in the queue is due
\* strictly earlier, in whatever order they were scheduled.
C6_DueOrder ==
    thCurrent /= NoEvent => \A e \in thLeft : thCurrent.time <= e.time

\* A callback scheduled second but due first runs while the one scheduled
\* first is still queued.
C6_Witness ==
    /\ thCurrent /= NoEvent
    /\ \E e \in thLeft : e.id < thCurrent.id /\ thCurrent.time < e.time

IsPrefix(a, b) == Len(a) <= Len(b) /\ a = SubSeq(b, 1, Len(a))

\* The log entries of Fire number id, in the order they were made.
EventsOf(id) == LET Of(e) == e.id = id IN SelectSeq(smLog, Of)

\* What a Fire taken in state s and resolved to d must log, in order.
FireSequence(id, s, d) ==
    <<LogEntry(id, "exit", s, s), LogEntry(id, "set", d, d),
      LogEntry(id, "entry", d, d)>>

\* The latest Fire call resolved a destination (it did not throw).
Resolved == smAttempt /= NoAttempt /\ smOutcome \in {"running", "ok"}

LastCall == smCalls[Len(smCalls)]

\* The destination of the only satisfied transition state s declares for t.
OwnDestination(s, t) == (CHOOSE c \in Satisfied(s, t) : TRUE).to

\* The super-states of s, and theirs.
RECURSIVE Ancestors(_)
Ancestors(s) == smSuper[s] \cup UNION {Ancestors(p) : p \in smSuper[s]}

\* C1: every Fire taken in state s and resolved to d calls the exit handler of
\* s while the state is still s, then sets the state to d, then calls the
\* entry handler of d with the state being d; a Fire that has returned has done
\* all three, and one in progress has done a prefix of them.
C1_FireOrder ==
    \A id \in 1..Len(smCalls) :
        LET c == smCalls[id]
            want == FireSequence(id, c.source, c.destination)
        IN  /\ IsPrefix(EventsOf(id), want)
            /\ c.returned => EventsOf(id) = want

\* A Fire made from inside a handler of another Fire has returned, and both
\* changed the state.
C1_Witness ==
    /\ Len(smCalls) >= 2
    /\ smCalls[2].returned
    /\ smCalls[1].returned
    /\ smCalls[1].source /= smCalls[1].destination
    /\ smCalls[2].source /= smCalls[2].destination

\* C2: a satisfied transition the current state declares itself gives the
\* destination whatever its super-states declare; when it declares none that
\* is satisfied, the destination is that of its super-state's satisfied
\* transition, or failing that of the super-state's super-state.
C2_SubstateShadows ==
    smAttempt /= NoAttempt =>
        LET s == smAttempt.source
            t == smAttempt.trigger
        IN  /\ SatisfiedCount(s, t) = 1 =>
                  Resolved /\ LastCall.destination = OwnDestination(s, t)
            /\ (SatisfiedCount(s, t) = 0 /\ Cardinality(smSuper[s]) = 1) =>
                  LET p == CHOOSE x \in smSuper[s] : TRUE
                  IN  /\ SatisfiedCount(p, t) = 1 =>
                            Resolved
                            /\ LastCall.destination = OwnDestination(p, t)
                      /\ (SatisfiedCount(p, t) = 0
                             /\ Cardinality(smSuper[p]) = 1) =>
                            LET q == CHOOSE x \in smSuper[p] : TRUE
                            IN  SatisfiedCount(q, t) = 1 =>
                                    Resolved
                                    /\ LastCall.destination
                                           = OwnDestination(q, t)

\* A sub-state with a satisfied transition of its own was fired although its
\* super-state declares another destination for the same trigger.
C2_Witness ==
    /\ Resolved
    /\ LET s == smAttempt.source
           t == smAttempt.trigger
       IN  /\ SatisfiedCount(s, t) = 1
           /\ \E p \in smSuper[s] :
                  /\ SatisfiedCount(p, t) = 1
                  /\ OwnDestination(p, t) /= OwnDestination(s, t)

\* C3: firing a trigger for which the current state declares two or more
\* satisfied transitions throws MultipleTriggerException, leaves the state as
\* it was and runs no handler.
C3_Ambiguous ==
    (smAttempt /= NoAttempt
        /\ SatisfiedCount(smAttempt.source, smAttempt.trigger) >= 2) =>
        /\ smOutcome = "MultipleTriggerException"
        /\ smState = smAttempt.source
        /\ smLog = smAttempt.log

\* A trigger was fired for which the current state declares two satisfied
\* transitions to different destinations.
C3_Witness ==
    /\ smOutcome = "MultipleTriggerException"
    /\ Cardinality(Satisfied(smAttempt.source, smAttempt.trigger)) >= 2

\* C4: firing a trigger for which neither the current state nor any of its
\* super-states, and theirs, has a satisfied transition (a state never
\* configured has none) throws UndefinedTriggerException, leaves the state as
\* it was and runs no handler.
C4_Undefined ==
    (smAttempt /= NoAttempt
        /\ \A a \in {smAttempt.source} \cup Ancestors(smAttempt.source) :
               SatisfiedCount(a, smAttempt.trigger) = 0) =>
        /\ smOutcome = "UndefinedTriggerException"
        /\ smState = smAttempt.source
        /\ smLog = smAttempt.log

\* A trigger was fired in a state with super-states, none of them permitting
\* it; in another run, in a state never configured.
C4_Witness ==
    /\ smOutcome = "UndefinedTriggerException"
    /\ smSuper[smAttempt.source] /= {}
    /\ \E c \in DOMAIN smTrans :
           c.from \in Ancestors(smAttempt.source)
           /\ c.trigger = smAttempt.trigger /\ ~c.guard


(***************************************************************************)
(* Properties of the TCP client, checked under SpecTcp.                    *)
(***************************************************************************)
TcpIsConnected == tcp.state \in {"Connected", "Sending"}

\* C5: for a connected client, whatever number of bytes each socket-level
\* send accepts, the bytes handed to the socket are at all times a prefix of
\* the concatenation of the arguments of the Send calls in call order, and
\* the bytes not yet handed over are exactly the rest of it, still queued.
C5_WireIsPrefix ==
    /\ IsPrefix(tcp.wire, tcp.sent)
    /\ TcpIsConnected => tcp.wire \o tcp.sendBuffer = tcp.sent

\* Send("AB") then Send("CD"), the socket having taken "ABC" in more than one
\* partial write and "D" still queued for the next one.
C5_Witness ==
    /\ tcp.sends = 2
    /\ tcp.depth >= 2
    /\ tcp.sent = <<"A", "B", "C", "D">>
    /\ tcp.wire = <<"A", "B", "C">>
    /\ tcp.sendBuffer = <<"D">>


(***************************************************************************)
(* Properties of the HTTP client, checked under SpecHttp.                  *)
(***************************************************************************)
Kinds(log) == [i \in DOMAIN log |-> log[i].kind]

\* The payloads of the ContentReceived events of a log, concatenated.
RECURSIVE Content(_)
Content(log) ==
    IF log = <<>> THEN <<>>
    ELSE (IF log[1].kind = "ContentReceived" THEN log[1].value ELSE <<>>)
         \o Content(Tail(log))

Count(log, kind) == Cardinality({i \in DOMAIN log : log[i].kind = kind})

\* Which event may come straight after which within one response.
Follows(a, b) ==
    \/ a \in {"ResponseStarted", "HeaderReceived"}
       /\ b \in {"HeaderReceived", "ContentReceived", "ResponseEnded"}
    \/ a = "ContentReceived" /\ b \in {"ContentReceived", "ResponseEnded"}

\* C8: the events of every response are one ResponseStarted, then
\* HeaderReceived events, then ContentReceived events, then one ResponseEnded:
\* the first event is a ResponseStarted, each ResponseStarted comes first of
\* all or straight after a ResponseEnded, no HeaderReceived follows a
\* ContentReceived, and nothing of a response follows its ResponseEnded.
C8_EventOrder ==
    /\ http.before \in {"none", "ResponseEnded"}
    /\ http.log /= <<>> => http.log[1].kind = "ResponseStarted"
    /\ \A i \in 1..(Len(http.log) - 1) :
           Follows(http.log[i].kind, http.log[i + 1].kind)

\* The second response on a connection, complete, with a header and with its
\* content delivered in two pieces.
C8_Witness ==
    /\ http.before = "ResponseEnded"
    /\ Kinds(http.log) = <<"ResponseStarted", "HeaderReceived",
                           "ContentReceived", "ContentReceived",
                           "ResponseEnded">>

\* All the bytes of response r have been read.
Delivered(r) == http.resp = r.name /\ http.stream = <<>> /\ ~http.cut

\* The events of a complete response r: ResponseStarted, its headers, its
\* body in pieces, one ResponseEnded.
Complete(r) ==
    LET n == Len(r.headers)
        log == http.log
    IN  /\ Len(log) >= n + 2
        /\ log[1].kind = "ResponseStarted"
        /\ \A i \in 1..n :
               log[i + 1] = Event("HeaderReceived", r.headers[i][1],
                                  r.headers[i][2], 0)
        /\ \A i \in (n + 2)..(Len(log) - 1) :
               log[i].kind = "ContentReceived" /\ log[i].value /= <<>>
        /\ log[Len(log)].kind = "ResponseEnded"
        /\ Content(log) = r.body
        /\ Count(log, "ResponseEnded") = 1

ChunkedResponses == {r \in Responses : r.name = "Chunked"}

\* C9: however the bytes of a chunked response are split into reads, no
\* error is raised and, once they have all been read, the ContentReceived
\* payloads concatenate to "abcde" and exactly one ResponseEnded was emitted.
C9_ChunkedAnySplit ==
    \A r \in ChunkedResponses :
        /\ http.resp = r.name => http.raised = "none"
        /\ Delivered(r) => Complete(r)

ContentLengthResponses ==
    {r \in Responses : r.name \in {"ContentLength", "ContentLengthZero"}}

\* C10: however the bytes of a response with Content-Length: N are split into
\* reads, no error is raised and, once they have all been read, the events
\* are ResponseStarted, the HeaderReceived events, ContentReceived pieces that
\* concatenate to the N body bytes, and then exactly one ResponseEnded.
C10_ContentLengthAnySplit ==
    \A r \in ContentLengthResponses :
        /\ http.resp = r.name => http.raised = "none"
        /\ Delivered(r) => Complete(r)

\* "Content-Length: 5" and "hello", read one byte at a time.
C10_Witness ==
    /\ http.resp = "ContentLength"
    /\ http.stream = <<>>
    /\ http.bytewise
    /\ Count(http.log, "ContentReceived") = 5
    /\ Content(http.log) = TextHello
    /\ http.state = "EndOfResponse"

UntilClosedResponses == {r \in Responses : r.name = "ConnectionClose"}

\* C11: for a response with Connection: close and no framing header, no error
\* is raised; while the connection is open every byte read after the header
\* block has been delivered as ContentReceived and no ResponseEnded emitted;
\* when the socket closes the response ends with exactly one ResponseEnded,
\* the content delivered being what was read.
C11_UntilClosed ==
    \A r \in UntilClosedResponses :
        http.resp = r.name =>
            /\ http.raised = "none"
            /\ http.state = "ResponseContentUntilClosed" =>
                   /\ http.link = "connected"
                   /\ http.buffer = <<>>
                   /\ Content(http.log) \o http.stream = r.body
                   /\ Count(http.log, "ResponseEnded") = 0
            /\ http.state = "WaitForDisconnect" =>
                   /\ http.link = "closed"
                   /\ IsPrefix(Content(http.log), r.body)
                   /\ Count(http.log, "ResponseEnded") = 1
                   /\ http.log[Len(http.log)].kind = "ResponseEnded"
            /\ Delivered(r) =>
                   /\ Content(http.log) = r.body
                   /\ http.link = "connected" =>
                          http.state = "ResponseContentUntilClosed"
                   /\ http.link = "closed" =>
                          http.state = "WaitForDisconnect" /\ Complete(r)

\* The whole response was read in more than one piece and the socket then
\* closed.
C11_Witness ==
    /\ http.resp = "ConnectionClose"
    /\ http.link = "closed"
    /\ ~http.cut
    /\ http.state = "WaitForDisconnect"
    /\ Kinds(http.log) = <<"ResponseStarted", "HeaderReceived",
                           "ContentReceived", "ContentReceived",
                           "ResponseEnded">>
    /\ Content(http.log) = TextHi

(***************************************************************************)
(* Properties of the HTTP server's handler.                                *)
(***************************************************************************)
\* How many of the received bytes the handler's parser has erased from its
\* buffer.
SrvConsumed == Len(srv.received) - Len(srv.buffer)

\* How many bytes the first k requests of the peer take.
RECURSIVE Boundary(_)
Boundary(k) ==
    IF k = 0 THEN 0 ELSE Boundary(k - 1) + Len(srv.sent[k].bytes)

\* C12: after every dispatch of received bytes the handler's buffer holds
\* exactly the received bytes the request grammar has not consumed: it is the
\* tail of what was received; when every request that started has ended, the
\* bytes consumed are exactly the bytes of the ended requests, so that nothing
\* of an ended request remains and nothing of a later request is gone; inside
\* a request the bytes consumed end inside that request.
C12_BufferIsUnconsumed ==
    /\ srv.buffer = Erase(srv.received, SrvConsumed)
    /\ srv.started = srv.ended => SrvConsumed = Boundary(srv.ended)
    /\ srv.started = srv.ended + 1 =>
           /\ Boundary(srv.ended) < SrvConsumed
           /\ SrvConsumed <= Boundary(srv.started)

\* The request the response under way answers.
Answered == srv.sent[srv.answered]

\* The header lines of a response with n SendHeader calls.
RECURSIVE ResponseHeaders(_)
ResponseHeaders(n) ==
    IF n = 0 THEN <<>>
    ELSE HeaderLine(TextDate, TextNow) \o ResponseHeaders(n - 1)

\* One chunk frame for each non-empty piece.
RECURSIVE Frames(_)
Frames(pieces) ==
    IF pieces = <<>> THEN <<>>
    ELSE (IF pieces[1] = <<>> THEN <<>> ELSE ChunkFrame(pieces[1]))
         \o Frames(Tail(pieces))

\* The bytes of a response up to its last Send, without and with chunk
\* framing.
ClosingResponse ==
    ResponseLine \o ResponseHeaders(srv.headers) \o CloseHeader
    \o Concat(srv.pieces)

ChunkedResponse ==
    ResponseLine \o ResponseHeaders(srv.headers) \o ChunkedHeader
    \o Frames(srv.pieces)

\* C13: in every request/response cycle of the server, when the request
\* carried Connection: close the response's header block ends with
\* "Connection: close\r\n\r\n", its pieces are written as they are and End
\* disconnects the socket; when it did not, the header block ends with
\* "Transfer-Encoding: chunked\r\n\r\n", every non-empty piece is written as a
\* chunk frame, End writes "0\r\n\r\n" and the handler is back at the request
\* line, still connected.  The socket is not disconnected before End.
C13_ResponseFraming ==
    srv.answered > 0 =>
        /\ ~srv.done =>
               /\ srv.link /= "closed by server"
               /\ srv.pieces /= <<>> =>
                      srv.out = IF Answered.close THEN ClosingResponse
                                ELSE ChunkedResponse
        /\ srv.done /\ Answered.close =>
               /\ srv.out = ClosingResponse
               /\ srv.link = "closed by server"
               /\ srv.state = "ConnectionClose"
        /\ srv.done /\ ~Answered.close =>
               /\ srv.out = ChunkedResponse \o LastChunk
               /\ srv.link /= "closed by server"
               /\ srv.state /= "ConnectionClose"
               /\ srv.started = srv.answered =>
                      srv.state = "RequestActionLine"

C13_Witness ==
    /\ srv.answered = 2
    /\ srv.done
    /\ ~srv.sent[1].close
    /\ Answered.close
    /\ srv.headers = 1
    /\ srv.pieces = <<TextHi, <<>>>>
    /\ srv.link = "closed by server"

(***************************************************************************)
(* Properties of the HTTP client's requests.                               *)
(***************************************************************************)
\* What Begin hands to the socket.
RequestLine ==
    TextGet \o <<" ">> \o TextPath \o <<" ">> \o TextHttp11 \o CRLF

\* The header lines of a request with n SendHeader calls.
RECURSIVE RequestHeaders(_)
RequestHeaders(n) ==
    IF n = 0 THEN <<>>
    ELSE HeaderLine(TextHost, TextX) \o RequestHeaders(n - 1)

\* The states of a request under way.
RequestStates ==
    {"RequestActionLine", "RequestHeaderLine", "RequestLastHeader",
     "RequestChunk"}

\* C14: for a request Begin, k SendHeader calls, n >= 1 Send calls and End
\* the bytes handed to the socket are the request line, the k header lines,
\* "Transfer-Encoding: chunked\r\n\r\n" once, one frame for each non-empty
\* Send in call order, nothing for an empty Send, and "0\r\n\r\n"; the chunked
\* header is written at the first Send and not before.
C14_RequestBytes ==
    /\ http.call.ended =>
           /\ Len(http.call.parts) >= 1
           /\ http.out = RequestLine \o RequestHeaders(http.call.headers)
                         \o ChunkedHeader \o Frames(http.call.parts)
                         \o LastChunk
    /\ ~http.call.ended /\ http.state \in RequestStates =>
           http.out = RequestLine \o RequestHeaders(http.call.headers)
                      \o (IF http.call.parts = <<>> THEN <<>>
                          ELSE ChunkedHeader \o Frames(http.call.parts))

C14_Witness ==
    /\ http.call.ended
    /\ http.call.headers = 1
    /\ http.call.parts = <<TextHi, <<>>>>
    /\ http.state = "ResponseActionLine"

\* The responses whose header block has a Content-Length header first and
\* then another of the three headers.
LengthFirstResponses ==
    {r \in Responses : r.name \in {"LengthThenClose", "LengthThenChunked"}}

\* C15: whatever follows a Content-Length header in the header block, a
\* Connection: close or a Transfer-Encoding: chunked header, parsing raises
\* no error and the body stays delimited by the Content-Length: once the
\* bytes of the response have been read, the response is complete, with the
\* N body bytes as content and one ResponseEnded.
C15_FirstFramingHeaderLatches ==
    \A r \in LengthFirstResponses :
        /\ http.resp = r.name => http.raised = "none"
        /\ Delivered(r) => Complete(r)

(***************************************************************************)
(* Properties of the TcpClient's state history.                            *)
(***************************************************************************)
TcpTriggers == {"Connect", "Connected", "Send", "Timeout", "Disconnected"}

\* The place of a state in Idle, Connecting, Connected, Sending, Disconnected.
TcpRank(s) ==
    CASE s = "Idle" -> 0
      [] s = "Connecting" -> 1
      [] s = "Connected" -> 2
      [] s = "Sending" -> 3
      [] s = "Disconnected" -> 4

\* C16: the states a TcpClient has been in start with Idle and go forward
\* along Idle, Connecting, Connected, Sending, Disconnected; Connected is
\* entered at most once, Sending is entered only from Connected or from
\* Sending, nothing follows Disconnected and no trigger is permitted there.
C16_StateHistory ==
    LET h == tcp.history
    IN  /\ h[1] = "Idle"
        /\ h[Len(h)] = tcp.state
        /\ \A i \in 1..(Len(h) - 1) :
               /\ TcpRank(h[i]) < TcpRank(h[i + 1])
               /\ h[i] /= "Disconnected"
               /\ h[i + 1] = "Sending" => h[i] = "Connected"
               /\ h[i + 1] = "Connected" => h[i] \in {"Idle", "Connecting"}
        /\ Cardinality({i \in 1..Len(h) : h[i] = "Connected"}) <= 1
        /\ \A t \in TcpTriggers :
               TcpTransition("Disconnected", t).kind = "none"

\* A client that connected, sent and was disconnected, and was then asked to
\* connect again.
C16_Witness ==
    /\ tcp.history =
           <<"Idle", "Connecting", "Connected", "Sending", "Disconnected">>
    /\ tcp.error = "UndefinedTriggerException"
    /\ tcp.wire /= <<>>

\* C17: a disconnect reported by the socket is absorbed by the HttpClient in
\* every state it can be in, the wait for the connection included: after
\* OnClientDisconnected no error is raised and the client waits for a
\* connection (or, its response ended by the disconnect, for nothing more).
C17_DisconnectAbsorbed ==
    http.link = "closed" =>
        /\ http.raised = "none"
        /\ http.state \in {"WaitForConnection", "WaitForDisconnect"}

(***************************************************************************)
(* Properties of the SslClient.                                            *)
(***************************************************************************)
\* Whether the client has reached Handshaked before place i of its trace.
HandshakedBefore(i) == \E j \in 1..(i - 1) : ssl.trace[j] = "Handshaked"

\* C18: ClientConnected is emitted only when Connected, Handshaking and
\* Handshaked have just been entered, in that order; no ClientConnected or
\* DataReceived is emitted and no Send is accepted before Handshaked is
\* reached: until then a Send call throws and the socket is given nothing.
C18_HandshakeBeforeConnected ==
    LET t == ssl.trace
    IN  /\ \A i \in 1..Len(t) :
               /\ t[i] = "ClientConnected event" =>
                      /\ i > 3
                      /\ t[i - 3] = "Connected"
                      /\ t[i - 2] = "Handshaking"
                      /\ t[i - 1] = "Handshaked"
               /\ t[i] \in {"ClientConnected event", "DataReceived event",
                            "Sending"} => HandshakedBefore(i)
        /\ ~HandshakedBefore(Len(t) + 1) =>
               /\ ssl.wire = <<>>
               /\ ssl.call = "Send" =>
                      ssl.error = "UndefinedTriggerException"

\* A client that connected, received data and sent.
C18_Witness ==
    /\ ssl.trace = <<"Idle", "Connecting", "Connected", "Handshaking",
                     "Handshaked", "ClientConnected event",
                     "DataReceived event", "Sending">>
    /\ ssl.wire = <<"A", "B">>
    /\ ssl.error = "none"

(***************************************************************************)
(* Properties of the XML parser.                                           *)
(***************************************************************************)
\* The tokens of <a:b x='1'><c/>text</a:b> in document order.
NestedTokens ==
    << Token("StartElement", <<"a">>, <<"b">>),
       Token("AttributeName", <<>>, <<"x">>),
       Token("AttributeValue", <<>>, <<"1">>),
       Token("StartElement", <<>>, <<"c">>),
       Token("EndElement", <<>>, <<"c">>),
       Token("Data", <<>>, <<"t", "e", "x", "t">>),
       Token("EndElement", <<"a">>, <<"b">>) >>

\* C19: once <a:b x='1'><c/>text</a:b> has been appended, the tokens emitted
\* are StartElement(a,b), AttributeName(,x), AttributeValue(1),
\* StartElement(,c), EndElement(,c), Data(text), EndElement(a,b): the
\* self-closed element's EndElement follows its StartElement at once, and the
\* text after the child is emitted as Data before the parent's EndElement.
C19_DocumentOrder ==
    xml.doc = "Nested" /\ xml.parser.rest = <<>> =>
        /\ xml.parser.raised = "none"
        /\ xml.parser.tokens = NestedTokens

\* The tokens a parser emits when given the whole text in one Append.
WholeTokens(text) == ParserAppend(NewParser(<<>>), text).tokens

\* C20: however a document is split over successive Append calls, once all
\* of it has been appended the tokens emitted are those of a single Append
\* of the whole document, and no error was raised.
C20_SplitIndependent ==
    \A document \in Documents :
        xml.doc = document.name /\ xml.parser.rest = <<>> =>
            /\ xml.parser.raised = "none"
            /\ xml.parser.tokens = WholeTokens(document.text)

(***************************************************************************)
(* Properties of the XML document parser, checked under SpecXml.           *)
(***************************************************************************)
\* What serializing each complete top-level element of a document gives.
ExpectedDocuments ==
    [Nested |-> <<(<<"<", "a", ":", "b", " ", "x", "=", "'", "1", "'", ">",
                     "<", "c", ">", "<", "/", "c", ">", "t", "e", "x", "t",
                     "<", "/", "a", ":", "b", ">">>)>>,
     Simple |-> <<TextSimple>>,
     Escaped |-> <<(<<"<", "r", " ", "y", "=", "'", "2", "'", ">", "&", "l",
                      "t", ";", "<", "/", "r", ">">>)>>,
     Inner |-> <<TextInner>>,
     Pair |-> <<(<<"<", "a", ">", "<", "/", "a", ">">>),
                (<<"<", "b", ">", "<", "/", "b", ">">>)>>]

\* The documents given to DocumentParsed, serialized.
ParsedDocuments(h) ==
    [i \in DOMAIN h.parsed |->
        ElementToString(h.parsed[i].tree, h.parsed[i].top)]

\* C21: once a well-formed document has been appended, DocumentParsed has
\* been emitted exactly once for each of its top-level elements, in order,
\* each time with the element's attributes, child elements and text.
C21_DocumentParsedPerElement ==
    (xml.doc \in DOMAIN ExpectedDocuments /\ xml.parser.rest = <<>>)
        => ParsedDocuments(xml.parser) = ExpectedDocuments[xml.doc]

\* The names of the elements open after the first `count` events, the
\* innermost last: a start element opens one, an end element closes one.
RECURSIVE OpenElements(_, _)
OpenElements(tokens, count) ==
    LET open == OpenElements(tokens, count - 1)
        token == tokens[count]
    IN  IF count = 0 THEN <<>>
        ELSE IF token.kind = "StartElement"
        THEN Append(open, <<token.namespace, token.name>>)
        ELSE IF token.kind = "EndElement" /\ open /= <<>>
        THEN SubSeq(open, 1, Len(open) - 1)
        ELSE open

\* Event i is an end element that does not name the innermost open element.
Unbalanced(tokens, i) ==
    LET open == OpenElements(tokens, i - 1)
    IN  /\ tokens[i].kind = "EndElement"
        /\ \/ open = <<>>
           \/ open[Len(open)] /= <<tokens[i].namespace, tokens[i].name>>

\* The end elements among the first `count` events that closed a top-level
\* element.
TopLevelEnds(tokens, count) ==
    {i \in 1..count : /\ tokens[i].kind = "EndElement"
                      /\ ~Unbalanced(tokens, i)
                      /\ Len(OpenElements(tokens, i - 1)) = 1}

\* C22: an end element whose namespace or name differs from the element on
\* top of the stack makes the parser fail with InvalidFormatException, with
\* no DocumentParsed for it; and the parser fails so for no other event.
C22_UnbalancedEndFails ==
    LET h == xml.parser
    IN  /\ \A i \in DOMAIN h.tokens :
               Unbalanced(h.tokens, i)
                   => /\ h.raised = "InvalidFormatException"
                      /\ i = Len(h.tokens)
                      /\ Len(h.parsed)
                             = Cardinality(TopLevelEnds(h.tokens, i - 1))
        /\ h.raised = "InvalidFormatException"
               => Unbalanced(h.tokens, Len(h.tokens))

C22_Witness ==
    /\ xml.doc = "Crossed"
    /\ xml.parser.raised = "InvalidFormatException"
    /\ Len(xml.parser.tokens) = 3
    /\ xml.parser.parsed = <<>>

(***************************************************************************)
(* Properties of the element tree, checked under SpecDom.                  *)
(***************************************************************************)
\* The attributes of an element in the order their keys are listed.
AttributesListed(attributes, keys) ==
    [i \in DOMAIN keys |-> CHOOSE a \in attributes : a.key = keys[i]]

\* The element built, written with its attributes in the order the program
\* first named them and its child elements in the order it added them.
InInsertionOrder ==
    <<"<">> \o dom.tree[1].name
    \o AttributesToString(AttributesListed(dom.tree[1].attributes, dom.named))
    \o <<">">>
    \o ElementsToString(dom.tree, [i \in 1..(Len(dom.tree) - 1) |-> i + 1])
    \o Escape(dom.tree[1].value)
    \o ToEndElementString(dom.tree, 1)

\* C27: serializing an element lists its attributes in the order they were
\* inserted and its child elements in the order they were inserted.
C27_InsertionOrder == ElementToString(dom.tree, 1) = InInsertionOrder

\* C24: whatever way the server's bytes are split across reads, the bytes
\* handed to the document parser are exactly the received bytes that follow
\* the '>' closing a stream:stream start tag, and none of the tag's own.
C24_OnlyStanzasToDocumentParser ==
    JabberRunning => jab.parser.document.fed = jab.stanzas

\* The states the client's machine entered before the i-th thing it did.
StatesBefore(log, i) ==
    LET entered == SelectSeq(SubSeq(log, 1, i - 1),
                             LAMBDA did : did.kind = "state")
    IN  [k \in DOMAIN entered |-> entered[k].name]

\* The course of a connection up to the created session: the login accepted,
\* or refused for an unknown account that is then created.
Courses ==
    LET opening == <<"Connecting", "Connected", "CreatingPreLoginStream",
                     "CreatedPreLoginStream", "LoggingIn">>
        closing == <<"LoggedIn", "CreatingPostLoginStream",
                     "CreatedPostLoginStream", "BindingResource",
                     "BoundResource", "CreatingSession", "CreatedSession">>
    IN  { opening \o closing,
          opening \o <<"LoginInvalidAccount", "CreatingAccount">>
              \o closing }

ConnectedAt(log) ==
    {i \in DOMAIN log : log[i] = Did("event", "ClientConnected", <<>>)}

\* Before ClientConnected the machine went a whole course; right after it
\* the empty presence stanza is sent, then the keepalive's space, and the
\* next keepalive is queued.
ConnectedInOrder ==
    \A i \in ConnectedAt(Client.log) :
        /\ StatesBefore(Client.log, i) \in Courses
        /\ Len(Client.log) >= i + 3
        /\ Client.log[i + 1] =
               Did("send", "", ElementToString(
                                   <<XmlElement(0, <<>>, TextPresence)>>, 1))
        /\ Client.log[i + 2] = Did("send", "", <<" ">>)
        /\ Client.log[i + 3] = Did("timeout", "KeepAlive", <<>>)

\* C23: ClientConnected is emitted only after the pre-login stream, the
\* accepted login (or the created account), the post-login stream, the bind
\* response, whose JID is the one recorded, and the session response, in
\* this order; the empty presence stanza is sent next and the keepalive is
\* started after it.
C23_ConnectedAfterSession ==
    /\ ConnectedInOrder
    /\ ConnectedAt(Client.log) /= {} => Client.jid = TextFullJid

(***************************************************************************)
(* Properties of the router.                                               *)
(***************************************************************************)
\* The '/'-separated segments of a text: what stands between one '/' (or the
\* start) and the next (or the end); nothing follows a final '/'.
SegmentsOf(text) ==
    LET slashes == {i \in DOMAIN text : text[i] = "/"}
        starts == {b \in {1} \cup {i + 1 : i \in slashes} : b <= Len(text)}
        EndOf(b) == Min({i \in slashes : i >= b} \cup {Len(text) + 1})
        Start(k) == CHOOSE b \in starts :
                        Cardinality({c \in starts : c < b}) = k - 1
    IN  [k \in 1..Cardinality(starts) |->
            SubSeq(text, Start(k), EndOf(Start(k)) - 1)]

IsPlaceholder(segment) ==
    Len(segment) >= 2 /\ Head(segment) = "{" /\ segment[Len(segment)] = "}"

PlaceholderName(segment) == SubSeq(segment, 2, Len(segment) - 1)

HasQuery(text) == \E i \in DOMAIN text : text[i] = "?"

\* The comparisons of a pattern and a path that have no query part.
PathComparisons ==
    {i \in DOMAIN router.compared :
        /\ ~HasQuery(router.compared[i].expression)
        /\ ~HasQuery(router.compared[i].path)}

SegmentsMatch(pattern, path) ==
    /\ Len(pattern) = Len(path)
    /\ \A k \in DOMAIN pattern :
           pattern[k] = path[k] \/ IsPlaceholder(pattern[k])

\* C26: a pattern matches a path exactly when both have the same number of
\* '/'-separated segments and each pattern segment equals the path's or is a
\* {name} placeholder, and then matches[name] is that path segment;
\* /entities/{entityId} matches /entities/100 with entityId = "100" and
\* does not match /entities/100/x.
C26_MatchBySegments ==
    \A i \in PathComparisons :
        LET c == router.compared[i]
            pattern == SegmentsOf(c.expression)
            path == SegmentsOf(c.path)
        IN  /\ c.equal <=> SegmentsMatch(pattern, path)
            /\ c.equal =>
                   \A k \in DOMAIN pattern :
                       IsPlaceholder(pattern[k]) /\ pattern[k] /= path[k]
                           => /\ PlaceholderName(pattern[k])
                                     \in DOMAIN c.matches
                              /\ c.matches[PlaceholderName(pattern[k])]
                                     = path[k]
            /\ c.expression = TextEntityPattern =>
                   /\ c.path = <<"/", "e", "n", "t", "i", "t", "i", "e", "s",
                                 "/", "1", "0", "0">> =>
                          c.equal /\ c.matches[TextEntityId] = TextHundred
                   /\ c.path = <<"/", "e", "n", "t", "i", "t", "i", "e", "s",
                                 "/", "1", "0", "0", "/", "x">> => ~c.equal

\* A request for /entities/100 was compared with /entities/{entityId} and one
\* for a longer path was refused.
C26_Witness ==
    \E i \in PathComparisons :
        /\ router.compared[i].expression = TextEntityPattern
        /\ router.compared[i].path = <<"/", "e", "n", "t", "i", "t", "i",
                                       "e", "s", "/", "1", "0", "0">>
        /\ router.compared[i].equal
        /\ router.compared[i].matches[TextEntityId] = TextHundred

\* The bytes of the router's 400 response.
BadRequestResponse ==
    <<"H", "T", "T", "P", "/", "1", ".", "1", " ", "4", "0", "0", " ", "B",
      "a", "d", " ", "R", "e", "q", "u", "e", "s", "t">> \o CRLF
    \o <<"S", "e", "r", "v", "e", "r", ":", " ", "n", "i", "t", "r", "u", "s">> \o CRLF
    \o <<"C", "o", "n", "t", "e", "n", "t", "-", "T", "y", "p", "e", ":",
         " ", "t", "e", "x", "t", "/", "p", "l", "a", "i", "n">> \o CRLF
    \o <<"T", "r", "a", "n", "s", "f", "e", "r", "-", "E", "n", "c", "o",
         "d", "i", "n", "g", ":", " ", "c", "h", "u", "n", "k", "e", "d">> \o CRLF \o CRLF
    \o <<"5">> \o CRLF \o TextException \o CRLF
    \o <<"0">> \o CRLF \o CRLF

EndsWith(bytes, tail) ==
    /\ Len(bytes) >= Len(tail)
    /\ SubSeq(bytes, Len(bytes) - Len(tail) + 1, Len(bytes)) = tail

\* C25: whenever a bound route handler throws, whatever it did with the
\* response before, the client is sent a 400 Bad Request response with the
\* exception text, the route counts as handled, and no exception leaves the
\* router.
C25_ThrowGivesBadRequest ==
    router.threw =>
        /\ router.client.raised = "none"
        /\ router.route /= <<>>
        /\ EndsWith(router.client.out, BadRequestResponse)

(***************************************************************************)
(* Properties of Event.                                                    *)
(***************************************************************************)
Occurrences(list, that) ==
    Cardinality({i \in DOMAIN list : list[i] = that})

\* C30: after any sequence of += and -= each handler is registered at most
\* once, so an invocation of the event calls it exactly once.
C30_RegisteredOnce ==
    \A that \in EventHandlers :
        /\ Occurrences(evt.handlers, that) <= 1
        /\ Occurrences(evt.invoked, that) <= 1

\* C28: when the socket takes fewer bytes than are queued, Send returns to
\* its caller with the remainder queued: the write Send makes is the only one
\* made inside the call, and what remains is written by a later step of the
\* event loop.
C28_SendReturnsWithRemainder ==
    [][tcp.depth > 0 => tcp'.depth = 0]_tcp

\* The super-states of s that resolve a transition for t.
Resolving(s, t) == {p \in smSuper[s] : Transition(p, t).kind = "ok"}

\* C29: when the current state has no satisfied transition of its own for
\* the trigger and two or more of its super-states each resolve one, Fire
\* throws MultipleTriggerException; when exactly one of them resolves, its
\* destination is used, whether it is the first or the last of them.
C29_SuperStatesResolve ==
    smAttempt /= NoAttempt =>
        LET s == smAttempt.source
            t == smAttempt.trigger
        IN  (/\ SatisfiedCount(s, t) = 0
             /\ \A p \in smSuper[s] : Transition(p, t).kind /= "multi") =>
                /\ Cardinality(Resolving(s, t)) >= 2 =>
                       /\ smOutcome = "MultipleTriggerException"
                       /\ smState = s
                       /\ smLog = smAttempt.log
                /\ Cardinality(Resolving(s, t)) = 1 =>
                       /\ Resolved
                       /\ LastCall.destination =
                              Transition(CHOOSE p \in Resolving(s, t) : TRUE,
                                         t).dest

\* A trigger was fired in a state that declares none for it and has two
\* super-states, each with a satisfied transition for it, to different
\* destinations.
C29_Witness ==
    /\ smOutcome = "MultipleTriggerException"
    /\ SatisfiedCount(smAttempt.source, smAttempt.trigger) = 0
    /\ Cardinality(smSuper[smAttempt.source]) = 2
    /\ \A p \in smSuper[smAttempt.source] :
           SatisfiedCount(p, smAttempt.trigger) = 1
    /\ \E p, q \in smSuper[smAttempt.source] :
           OwnDestination(p, smAttempt.trigger)
               /= OwnDestination(q, smAttempt.trigger)

(***************************************************************************)
(* Claims on DateTime.                                                     *)
(***************************************************************************)
\* DateTime::UnitTest: the epoch plus 67,221,446,400 seconds, the date it
\* reads as, and the date the test compares it with.
TestStamp == LongPlus(Epoch, LongFromSeconds(TestSeconds))

TestRead == ToYearMonthDay(TestStamp)

TestDate == FromYearMonthDay(4100, 3, 1)

\* The Gregorian calendar, stated independently of the code: the length of
\* a month, and the dates that exist.
GregorianMonth(year, month) ==
    IF month = 2
    THEN IF (year % 4 = 0 /\ year % 100 /= 0) \/ year % 400 = 0 THEN 29 ELSE 28
    ELSE IF month \in {4, 6, 9, 11} THEN 30 ELSE 31

GregorianDate(date) == date[3] <= GregorianMonth(date[1], date[2])

\* C31: a date that exists in the Gregorian calendar, turned into a DateTime
\* by FromYearMonthDay and read back by ToYearMonthDay, gives the same year,
\* month and day; the epoch plus 67,221,446,400 seconds reads as 4100-03-01,
\* and 4100-03-01 is that many seconds after the epoch.
C31_RoundTrip ==
    /\ (time.added = Long(0, 0) /\ GregorianDate(time.made))
           => ToYearMonthDay(time.stamp) = time.made
    /\ TestRead = <<4100, 3, 1>>
    /\ TestDate = TestStamp

\* A leap day of a year divisible by 400 has been made and read back.
C31_Witness ==
    /\ time.added = Long(0, 0)
    /\ time.made = <<2000, 2, 29>>
    /\ ToYearMonthDay(time.stamp) = <<2000, 2, 29>>

(***************************************************************************)
(* Claims on TimeSpan.                                                     *)
(***************************************************************************)
\* The components of a duration, and the milliseconds they stand for.
Components(ms) ==
    <<Weeks(ms), Days(ms), Hours(ms), Minutes(ms), Seconds(ms),
      Milliseconds(ms)>>

Recombined(parts) ==
    ((((parts[1] * 7 + parts[2]) * 24 + parts[3]) * 60 + parts[4]) * 60
        + parts[5]) * 1000 + parts[6]

\* C32: the component accessors truncate towards zero: no component of a
\* negative duration is positive and none of a positive one is negative, each
\* is the negation of the same component of the opposite duration, and the
\* components put together again give the total milliseconds.
C32_ComponentsTruncate ==
    LET parts == Components(time.span)
    IN  /\ time.span <= 0 => \A i \in 1..6 : parts[i] <= 0
        /\ time.span >= 0 => \A i \in 1..6 : parts[i] >= 0
        /\ \A i \in 1..6 : Components(0 - time.span)[i] = 0 - parts[i]
        /\ Recombined(parts) = time.span

\* The unit test's duration: -3999 ms is -3 seconds and -999 milliseconds.
C32_Witness ==
    /\ time.span = 0 - 3999
    /\ Seconds(time.span) = 0 - 3
    /\ Milliseconds(time.span) = 0 - 999

(***************************************************************************)
(* Claims on bytes that reach the HTTP server while it answers.            *)
(***************************************************************************)
\* C34: no exception leaves the handler's OnDataReceived, whatever state its
\* machine is in when the bytes arrive.
C34_BytesNeverRaise == srv.raised = "none"

(***************************************************************************)
(* Claims on a TcpClient that has been disconnected.                       *)
(***************************************************************************)
\* C33: no callback queued on the event loop targets a client that the
\* server has deleted.
C33_NoCallbackOnFreedClient == tcp.freed => tcp.pending = {}

\* C35: once ClientDisconnected has been emitted it is the last event (no
\* DataReceived and no second ClientDisconnected follows it), no read poll
\* is queued any more, and no exception has left a poll.
C35_QuietAfterDisconnected ==
    \A i \in 1..Len(tcp.events) :
        tcp.events[i] = "ClientDisconnected"
            => /\ i = Len(tcp.events)
               /\ "Connected_Update" \notin tcp.pending
               /\ tcp.error /= "Terminated"

(***************************************************************************)
(* Claims on TcpClient::Send while the client is not connected.            *)
(***************************************************************************)
NotConnected == {"Idle", "Connecting", "Disconnected"}

\* A step that is a call of Send.
SendCalled == tcp'.sends = tcp.sends + 1

\* C37, as stated: a Send while the client is not connected raises
\* UndefinedTriggerException and changes nothing else, the send buffer
\* included, and no rejected byte is ever written.
C37_RejectedSendNoEffect ==
    /\ [][(SendCalled /\ tcp.state \in NotConnected)
             => tcp' = [tcp EXCEPT !.error = "UndefinedTriggerException",
                                   !.sends = @ + 1]]_vars
    /\ [](IsPrefix(tcp.wire, tcp.sent))

\* C37, amended: a Send while the client is not connected raises
\* UndefinedTriggerException after it has appended its bytes to the send
\* buffer, and changes nothing else; the bytes stay in the buffer but none is
\* ever written: what the socket takes is always a prefix of the bytes of the
\* accepted calls.
C37_RejectedSendBuffered ==
    /\ [][(SendCalled /\ tcp.state \in NotConnected)
             => \E value \in SendArgs :
                    tcp' = [tcp EXCEPT !.error = "UndefinedTriggerException",
                                       !.sendBuffer = @ \o value,
                                       !.sends = @ + 1]]_vars
    /\ [](IsPrefix(tcp.wire, tcp.sent))

\* A Send has been rejected while the client was connecting.
C37_Witness ==
    /\ tcp.state = "Connecting"
    /\ tcp.sends = 1
    /\ tcp.error = "UndefinedTriggerException"
    /\ tcp.sendBuffer = <<"A", "B">>
    /\ tcp.sent = <<>>

(***************************************************************************)
(* Claims on a connection that is never answered.                          *)
(***************************************************************************)
\* C40: while no poll finds the socket writable or in error, the client that
\* has been told to connect stays in Connecting with its poll queued on the
\* event loop (so the loop never finds its queue empty): it never reaches
\* Connected or Disconnected, no exception ends the loop, and
\* ClientDisconnected is never emitted.
C40_StuckConnecting ==
    /\ tcp.state \in {"Idle", "Connecting"}
    /\ tcp.history \in {<<"Idle">>, <<"Idle", "Connecting">>}
    /\ tcp.state = "Connecting" => tcp.pending = {"Connecting_OnEntry"}
    /\ tcp.error /= "Terminated"
    /\ tcp.events = <<>>

\* The client is connecting, its poll queued.
C40_Witness ==
    /\ tcp.state = "Connecting"
    /\ tcp.error = "none"
    /\ "Connecting_OnEntry" \in tcp.pending

(***************************************************************************)
(* Claims on the keepalive of the XMPP client.                             *)
(***************************************************************************)
\* C36: once the client has reached Disconnected no KeepAlive callback is
\* queued, so none can attempt a send, raise, or queue itself again.
C36_KeepAliveOnlyLive ==
    Client.state = "Disconnected" => Client.timeouts = 0

(***************************************************************************)
(* Claims on the order of the HTTP client's request calls.                 *)
(***************************************************************************)
\* The steps in which a request call is accepted, and those in which one is
\* rejected.
BeginAccepted == http'.requests = http.requests + 1

HeaderAccepted == http'.call.headers = http.call.headers + 1

SendAccepted == Len(http'.call.parts) = Len(http.call.parts) + 1

EndAccepted == http'.call.ended /\ ~http.call.ended

CallRejected == http'.error /= "none"

\* A request has been begun and not ended; no Send has been accepted for it.
RequestOpen ==
    http.state \in {"RequestActionLine", "RequestHeaderLine", "RequestChunk"}

\* C38: Begin is accepted only on an established connection with no request
\* or response under way, SendHeader only in a begun request before its first
\* Send, Send only in a begun request, End only after a Send; a call that is
\* not accepted raises UndefinedTriggerException, passes no bytes to the
\* socket and leaves the state as it was.
C38_CallOrder ==
    [][/\ BeginAccepted
           => /\ http.link = "connected"
              /\ http.state \in {"Connected", "EndOfResponse"}
       /\ HeaderAccepted
           => /\ http.link = "connected" /\ RequestOpen
              /\ http.call = [NoCall EXCEPT !.headers = http.call.headers]
       /\ SendAccepted
           => http.link = "connected" /\ RequestOpen /\ ~http.call.ended
       /\ EndAccepted
           => /\ http.link = "connected" /\ RequestOpen
              /\ http.call.parts /= <<>>
       /\ CallRejected
           => http' = [http EXCEPT !.error = "UndefinedTriggerException"]
      ]_vars

\* A call has been rejected after the first Send of a request: no byte but
\* those of the accepted calls has been passed to the socket.
C38_Witness ==
    /\ http.state = "RequestChunk"
    /\ http.error = "UndefinedTriggerException"
    /\ http.call = [NoCall EXCEPT !.parts = <<TextHi>>]
    /\ http.out = TextGet \o <<" ">> \o TextPath \o <<" ">> \o TextHttp11
                  \o CRLF \o TextTransferEncoding \o <<":", " ">>
                  \o TextChunked \o CRLF \o CRLF \o ChunkFrame(TextHi)

(***************************************************************************)
(* Claims on the document parser's stack.                                  *)
(***************************************************************************)
\* C39: the stack of the document parser is never empty and its bottom is
\* the root, also after an end tag has been rejected.
C39_RootAtBottom ==
    /\ xml.parser.stack /= <<>>
    /\ xml.parser.stack[1] = 1

====
